---- MODULE Spec2Model ----
(***************************************************************************)
(* MQTTSwitch: a relay switched by a momentary button (interrupt), an MQTT *)
(* control topic and a Bluetooth serial console.                           *)
(*                                                                         *)
(* The repository holds two sketches of the firmware:                      *)
(*   "bluetooth"  src/MQTTSwitch.ino    (flag bluetooth_enable)            *)
(*   "config"     src/unnamed/part_000  (flag config_enable, soft AP, web  *)
(*                                       form, interactive setup)          *)
(* The state machine below follows both; the variable variant says which   *)
(* sketch is flashed.  The console flag is called config_enable in both.   *)
(***************************************************************************)
EXTENDS Integers, Sequences, FiniteSets, TLC

(***************************************************************************)
(* unsigned long: 32 bits, kept as two 16-bit limbs <<high, low>>.         *)
(***************************************************************************)
Limb == 2 ^ 16

U32 == (0 .. Limb - 1) \X (0 .. Limb - 1)

\* the unsigned long with value n, for 0 <= n < 2^31
ULong(n) == << n \div Limb, n % Limb >>

\* a - b on unsigned long (modulo 2^32)
Sub32(a, b) ==
  LET lo     == a[2] - b[2]
      borrow == IF lo < 0 THEN 1 ELSE 0
  IN  << (a[1] - b[1] - borrow) % Limb, lo % Limb >>

\* a + b on unsigned long (modulo 2^32)
Add32(a, b) ==
  LET lo    == a[2] + b[2]
      carry == IF lo >= Limb THEN 1 ELSE 0
  IN  << (a[1] + b[1] + carry) % Limb, lo % Limb >>

\* a >= b on unsigned long
Ge32(a, b) == a[1] > b[1] \/ (a[1] = b[1] /\ a[2] >= b[2])

Zero32 == ULong(0)

(***************************************************************************)
(* Program constants.                                                      *)
(***************************************************************************)
DEBOUNCE_MILLIS == 50
HOLD_MILLIS == 5000
RETRY_MILLIS == 60000
CONFIG_TIMEOUT_MILLIS == 600000
SETUP_TIMEOUT_MILLIS == 30000
PAYLOAD_BUF == 8
SETTINGS_HEADER_BT == 210
SETTINGS_HEADER_CFG == 211

Variants == {"bluetooth", "config"}

SETTINGS_HEADER(v) == IF v = "bluetooth" THEN SETTINGS_HEADER_BT ELSE SETTINGS_HEADER_CFG

(***************************************************************************)
(* C strings.  A settings value or a console token is a TLA+ string; a     *)
(* message payload is a tuple of bytes, each a one-character string, the   *)
(* zero byte being NUL.                                                    *)
(***************************************************************************)
NUL == "NUL"

\* the bytes of a string literal
Bytes(str) == [i \in 1 .. Len(str) |-> SubSeq(str, i, i)]

UpperToLower ==
  [c \in {"A", "E", "F", "L", "N", "O", "R", "S", "T", "U", "Y", "B", "M"} |->
     CASE c = "A" -> "a" [] c = "E" -> "e" [] c = "F" -> "f" [] c = "L" -> "l"
       [] c = "N" -> "n" [] c = "O" -> "o" [] c = "R" -> "r" [] c = "S" -> "s"
       [] c = "T" -> "t" [] c = "U" -> "u" [] c = "Y" -> "y" [] c = "B" -> "b"
       [] c = "M" -> "m"]

tolower(c) == IF c \in DOMAIN UpperToLower THEN UpperToLower[c] ELSE c

\* the C string held in a byte buffer: the bytes before the first zero byte
RECURSIVE CStr(_)
CStr(buf) ==
  IF buf = << >> \/ Head(buf) = NUL THEN << >>
  ELSE << Head(buf) >> \o CStr(Tail(buf))

\* strcmp(buf, lit) == 0
strcmpEq(buf, lit) == CStr(buf) = Bytes(lit)

\* strcasecmp(buf, lit) == 0
strcasecmpEq(buf, lit) ==
  LET a == CStr(buf)
      b == Bytes(lit)
  IN  /\ Len(a) = Len(b)
      /\ \A i \in 1 .. Len(a) : tolower(a[i]) = tolower(b[i])

Min(a, b) == IF a <= b THEN a ELSE b

\* char str[8] = {0}; memcpy(str, payload, std::min(length, sizeof(str) - 1));
PayloadBuf(payload) ==
  LET n == Min(Len(payload), PAYLOAD_BUF - 1)
  IN  [i \in 1 .. PAYLOAD_BUF |-> IF i <= n THEN payload[i] ELSE NUL]

\* strncmp(a, b, n) == 0 on strings without zero bytes
strncmpEq(a, b, n) ==
  SubSeq(a, 1, Min(Len(a), n)) = SubSeq(b, 1, Min(Len(b), n))

\* memset(dst, 0, size); strncpy(dst, src, size - 1);
StrNCpy(src, size) == SubSeq(src, 1, Min(Len(src), size - 1))

(***************************************************************************)
(* struct Settings                                                         *)
(***************************************************************************)
FieldSize(v) ==
  [device_name |-> 32, wifi_ssid |-> 32, wifi_password |-> 32,
   mqtt_server |-> 16, mqtt_id |-> 16, mqtt_user |-> 16,
   mqtt_password |-> IF v = "bluetooth" THEN 16 ELSE 32,
   mqtt_control_topic |-> 32, mqtt_status_topic |-> 32]

DefaultSettings(v) ==
  [header |-> SETTINGS_HEADER(v), device_name |-> "MQTTSwitch",
   wifi_ssid |-> "", wifi_password |-> "", mqtt_server |-> "",
   mqtt_port |-> 1883, mqtt_id |-> "", mqtt_user |-> "", mqtt_password |-> "",
   mqtt_control_topic |-> "", mqtt_status_topic |-> ""]

(***************************************************************************)
(* State.                                                                  *)
(*   variant  which sketch runs                                            *)
(*   clock    millis()                                                     *)
(*   pc       where the main thread is: "setup" before setup() ran, then   *)
(*            the statement of loop() it executes next                     *)
(*   s        the globals and function statics of the sketch, the state of *)
(*            the libraries and pins it drives, and a record of what the   *)
(*            last step did (op, pubs, ens, calls)                         *)
(*   budget   how many more environment events of each kind may happen     *)
(***************************************************************************)
VARIABLES variant, clock, pc, s, budget

vars == << variant, clock, pc, s, budget >>

WifiStatuses == {"NO_SHIELD", "DISCONNECTED", "CONNECTED", "CONNECT_FAILED"}

MqttStates == {"DISCONNECTED", "CONNECTED", "CONNECT_FAILED", "CONNECTION_LOST"}

\* the globals (lines 43-52 / 40-48), the statics of EnsureWiFi, EnsureMQTT,
\* ButtonChangeISR and loop, and the devices behind the libraries
Boot(v, stored) ==
  [ settings |-> DefaultSettings(v),
    eeprom |-> stored,
    power_enable |-> FALSE,
    config_enable |-> FALSE,
    bluetooth_enable_millis |-> Zero32,
    wifi_last_try |-> Zero32,
    mqtt_last_try |-> Zero32,
    last_status |-> "NO_SHIELD",
    last_state |-> "DISCONNECTED",
    button_press |-> FALSE,
    button_press_millis |-> Zero32,
    loop_entered |-> FALSE,
    blink_millis |-> Zero32,
    blink_period |-> 0,
    bluetooth_disconnected_millis |-> Zero32,
    last_power_enable |-> FALSE,
    last_config_enable |-> FALSE,
    last_bluetooth_has_client |-> FALSE,
    \* locals of Setup() while the dialogue is running
    mysettings |-> DefaultSettings(v),
    start |-> Zero32,
    \* pins
    power_pin |-> FALSE,
    status_led |-> FALSE,
    \* WiFi
    wifi_status |-> "NO_SHIELD",
    wifi_connecting |-> FALSE,
    ap_started |-> FALSE,
    \* PubSubClient
    mqtt_state |-> "DISCONNECTED",
    subscribed |-> "",
    connect_args |-> << >>,
    \* BluetoothSerial
    bt_started |-> FALSE,
    bt_has_client |-> FALSE,
    \* history: an attempt was started since boot or the last restart
    wifi_tried |-> FALSE,
    mqtt_tried |-> FALSE,
    \* history: the loop has seen a client detach, and when
    detach_seen |-> FALSE,
    detach_millis |-> Zero32,
    \* history: the publishes EnsureMQTT made for the last accepted connection,
    \* << >> before the first one
    announced |-> << >>,
    \* history: << d >> when the clock has run for d since a reference
    \* timestamp was taken, << >> when that is not followed
    waited |-> << >>,
    \* history: << n >> when n iterations of loop() have ended since the last
    \* interrupt (2 standing for two or more), and << b >> when the last
    \* status the broker accepted was b; << >> when that is not followed
    spared |-> << >>,
    sent |-> << >>,
    \* what the last step did
    op |-> "boot",
    pubs |-> << >>,
    ens |-> << >>,
    calls |-> << >>,
    said |-> << >>,
    msg |-> [topic |-> "", payload |-> << >>],
    input |-> "none",
    line |-> "",
    hold |-> << >>,
    idle |-> << >> ]

\* a new step starts: forget what the last one did
Begin(st, name) == [st EXCEPT !.op = name, !.pubs = << >>, !.ens = << >>, !.calls = << >>,
                                   !.said = << >>,
                                   !.msg = [topic |-> "", payload |-> << >>],
                                   !.input = "none", !.line = "", !.hold = << >>,
                                   !.idle = << >>]

Call(st, what) == [st EXCEPT !.calls = Append(@, what)]

(***************************************************************************)
(* RestartMQTT, RestartWiFi, PublishStatus                                 *)
(***************************************************************************)
\* mqtt.disconnect()
MqttDisconnect(st) ==
  Call([st EXCEPT !.mqtt_state = "DISCONNECTED", !.subscribed = ""], "mqtt.disconnect")

\* a restart that disconnects and keeps the time of the last attempt
RestartMQTTKeepsLastTry(st) == MqttDisconnect(st)

RestartMQTT(st) ==
  [MqttDisconnect(st) EXCEPT !.mqtt_last_try = Zero32, !.mqtt_tried = FALSE]

\* WiFi.disconnect()
WiFiDisconnect(st) ==
  Call([st EXCEPT !.wifi_status = IF @ = "NO_SHIELD" THEN @ ELSE "DISCONNECTED",
                  !.wifi_connecting = FALSE], "WiFi.disconnect")

RestartWiFi(st) ==
  [WiFiDisconnect(RestartMQTT(st)) EXCEPT !.wifi_last_try = Zero32, !.wifi_tried = FALSE]

\* a publish that is not retained
PublishStatusNotRetained(st) ==
  IF Len(st.settings.mqtt_status_topic) > 0
  THEN [Call(st, "PublishStatus") EXCEPT !.pubs = Append(@,
          [topic |-> st.settings.mqtt_status_topic,
           payload |-> IF st.power_enable THEN "ON" ELSE "OFF",
           retained |-> FALSE,
           power |-> st.power_enable,
           connected |-> st.mqtt_state = "CONNECTED"])]
  ELSE Call(st, "PublishStatus")

PublishStatus(st) ==
  IF Len(st.settings.mqtt_status_topic) > 0
  THEN [Call(st, "PublishStatus") EXCEPT !.pubs = Append(@,
          [topic |-> st.settings.mqtt_status_topic,
           payload |-> IF st.power_enable THEN "ON" ELSE "OFF",
           retained |-> TRUE,
           \* history: the state the publish was made in
           power |-> st.power_enable,
           connected |-> st.mqtt_state = "CONNECTED"])]
  ELSE Call(st, "PublishStatus")

(***************************************************************************)
(* EnsureWiFi, EnsureMQTT                                                  *)
(***************************************************************************)
\* a retry test that lets only the first attempt through
RetryDueOnce(last_try, now) == last_try = Zero32

\* the retry test: last_try == 0 || now - last_try >= 60000
RetryDue(last_try, now) ==
  last_try = Zero32 \/ Ge32(Sub32(now, last_try), ULong(RETRY_MILLIS))

\* what one call of an ensure function saw and did (history)
EnsCall(link, st, my, now, attempt, ret) ==
  [ link |-> link,
    endpoint |-> IF link = "wifi" THEN Len(my.wifi_ssid) > 0 ELSE Len(my.mqtt_server) > 0,
    connected |-> IF link = "wifi" THEN st.wifi_status = "CONNECTED"
                                   ELSE st.mqtt_state = "CONNECTED",
    changed |-> IF link = "wifi" THEN st.wifi_status # st.last_status
                                 ELSE st.mqtt_state # st.last_state,
    tried |-> IF link = "wifi" THEN st.wifi_tried ELSE st.mqtt_tried,
    before |-> IF link = "wifi" THEN st.wifi_last_try ELSE st.mqtt_last_try,
    now |-> now,
    attempt |-> attempt,
    ret |-> ret ]

Logged(st, call) == [st EXCEPT !.ens = Append(@, call)]

\* returns [st |-> the state after the call, ret |-> the value returned]
EnsureWiFi(st, my, now) ==
  LET seen == [st EXCEPT !.last_status = st.wifi_status]
  IN  IF st.wifi_status = "CONNECTED"
      THEN [st |-> Logged(seen, EnsCall("wifi", st, my, now, FALSE, TRUE)), ret |-> TRUE]
      ELSE IF Len(my.wifi_ssid) = 0
      THEN [st |-> Logged(seen, EnsCall("wifi", st, my, now, FALSE, FALSE)), ret |-> FALSE]
      ELSE IF RetryDue(st.wifi_last_try, now)
      THEN [st |-> Logged(Call([seen EXCEPT !.wifi_last_try = now,
                                            !.wifi_tried = TRUE,
                                            !.wifi_connecting = TRUE,
                                            !.wifi_status = "DISCONNECTED"],
                               "WiFi.begin"),
                          EnsCall("wifi", st, my, now, TRUE, FALSE)),
            ret |-> FALSE]
      ELSE [st |-> Logged(seen, EnsCall("wifi", st, my, now, FALSE, FALSE)), ret |-> FALSE]

\* a pointer argument: << >> is nullptr, << str >> points to str
NullPtr == << >>

Ptr(str) == << str >>

\* the arguments of mqtt.connect
ConnectArgs(v, my) ==
  LET id == IF Len(my.mqtt_id) = 0 THEN my.device_name ELSE my.mqtt_id
  IN  IF v = "bluetooth"
      THEN [ id |-> id,
             user |-> IF Len(my.mqtt_user) = 0 THEN NullPtr ELSE Ptr(my.mqtt_user),
             password |-> IF Len(my.mqtt_user) = 0 THEN NullPtr ELSE Ptr(my.mqtt_password),
             willTopic |-> Ptr(my.mqtt_status_topic),
             willQos |-> 1, willRetain |-> TRUE, willMessage |-> "OFFLINE" ]
      ELSE [ id |-> id,
             user |-> IF Len(my.mqtt_user) = 0 THEN NullPtr ELSE Ptr(my.mqtt_user),
             password |-> IF Len(my.mqtt_password) = 0 THEN NullPtr ELSE Ptr(my.mqtt_password),
             willTopic |-> IF Len(my.mqtt_status_topic) = 0 THEN NullPtr
                           ELSE Ptr(my.mqtt_status_topic),
             willQos |-> 1, willRetain |-> TRUE, willMessage |-> "OFFLINE" ]

\* a connect that subscribes whether or not the broker accepted the connection
ConnectSubscribesAlways(v, st, my, success) ==
  LET c == Call([st EXCEPT !.connect_args = << ConnectArgs(v, my) >>], "mqtt.connect")
      r == [c EXCEPT !.mqtt_state = IF success THEN "CONNECTED" ELSE "CONNECT_FAILED",
                     !.announced = IF success THEN << 0 >> ELSE @]
  IN  IF Len(my.mqtt_control_topic) > 0
      THEN Call([r EXCEPT !.subscribed = my.mqtt_control_topic], "mqtt.subscribe")
      ELSE r

\* mqtt.connect(...) and, on success, mqtt.subscribe(control topic, 1);
\* success says whether the broker accepted the connection
Connect(v, st, my, success) ==
  LET c == Call([st EXCEPT !.connect_args = << ConnectArgs(v, my) >>], "mqtt.connect")
  IN  IF success
      THEN LET up == [c EXCEPT !.mqtt_state = "CONNECTED", !.announced = << 0 >>]
           IN  IF Len(my.mqtt_control_topic) > 0
               THEN Call([up EXCEPT !.subscribed = my.mqtt_control_topic], "mqtt.subscribe")
               ELSE up
      ELSE [c EXCEPT !.mqtt_state = "CONNECT_FAILED"]

\* the state-change diagnostics of EnsureMQTT, with the publish on the change
\* into MQTT_CONNECTED
ObserveMQTT(st) ==
  IF st.mqtt_state # st.last_state
  THEN LET seen == [st EXCEPT !.last_state = st.mqtt_state]
       IN  IF st.mqtt_state = "CONNECTED"
           THEN LET pub == PublishStatus(seen)
                IN  [pub EXCEPT !.announced =
                       IF @ # << >> /\ Len(pub.pubs) > Len(seen.pubs)
                       THEN << @[1] + 1 >> ELSE @]
           ELSE seen
  ELSE st

\* an ensure that tries to connect without a broker address
EnsureMQTTNoEndpointCheck(v, st, my, now, success) ==
  LET seen == ObserveMQTT(st)
  IN  IF st.mqtt_state = "CONNECTED"
      THEN [st |-> Logged(seen, EnsCall("mqtt", st, my, now, FALSE, TRUE)), ret |-> TRUE]
      ELSE IF RetryDue(st.mqtt_last_try, now)
      THEN [st |-> Logged(Connect(v, [seen EXCEPT !.mqtt_last_try = now,
                                                  !.mqtt_tried = TRUE],
                                  my, success),
                          EnsCall("mqtt", st, my, now, TRUE, success)),
            ret |-> success]
      ELSE [st |-> Logged(seen, EnsCall("mqtt", st, my, now, FALSE, FALSE)), ret |-> FALSE]

EnsureMQTT(v, st, my, now, success) ==
  LET seen == ObserveMQTT(st)
  IN  IF st.mqtt_state = "CONNECTED"
      THEN [st |-> Logged(seen, EnsCall("mqtt", st, my, now, FALSE, TRUE)), ret |-> TRUE]
      ELSE IF Len(my.mqtt_server) = 0
      THEN [st |-> Logged(seen, EnsCall("mqtt", st, my, now, FALSE, FALSE)), ret |-> FALSE]
      ELSE IF RetryDue(st.mqtt_last_try, now)
      THEN [st |-> Logged(Connect(v, [seen EXCEPT !.mqtt_last_try = now,
                                                  !.mqtt_tried = TRUE],
                                  my, success),
                          EnsCall("mqtt", st, my, now, TRUE, success)),
            ret |-> success]
      ELSE [st |-> Logged(seen, EnsCall("mqtt", st, my, now, FALSE, FALSE)), ret |-> FALSE]

(***************************************************************************)
(* ButtonChangeISR                                                         *)
(***************************************************************************)
\* every release that is not a bounce classified as long
HoldClassNoShort(hold_millis) ==
  IF Ge32(hold_millis, ULong(DEBOUNCE_MILLIS)) THEN "long"
  ELSE "bounce"

\* a release of exactly 5000 ms classified as short
HoldClassLate(hold_millis) ==
  IF Ge32(hold_millis, ULong(HOLD_MILLIS + 1)) THEN "long"
  ELSE IF Ge32(hold_millis, ULong(DEBOUNCE_MILLIS)) THEN "short"
  ELSE "bounce"

\* a release of 49 ms classified as short
HoldClassNoDebounce(hold_millis) ==
  IF Ge32(hold_millis, ULong(HOLD_MILLIS)) THEN "long"
  ELSE IF Ge32(hold_millis, ULong(DEBOUNCE_MILLIS - 1)) THEN "short"
  ELSE "bounce"

\* how a release after hold_millis is classified
HoldClass(hold_millis) ==
  IF Ge32(hold_millis, ULong(HOLD_MILLIS)) THEN "long"
  ELSE IF Ge32(hold_millis, ULong(DEBOUNCE_MILLIS)) THEN "short"
  ELSE "bounce"

\* the handler leaving the relay to the main loop
ButtonChangeISRNoWrite(st, low, now) ==
  IF low
  THEN IF ~st.button_press
       THEN [st EXCEPT !.button_press = TRUE, !.button_press_millis = now]
       ELSE st
  ELSE IF st.button_press
       THEN LET hold_millis == Sub32(now, st.button_press_millis)
                released    == [st EXCEPT !.button_press = FALSE,
                                          !.hold = << hold_millis >>]
            IN  CASE HoldClass(hold_millis) = "long" ->
                       [released EXCEPT !.config_enable = ~st.config_enable]
                  [] HoldClass(hold_millis) = "short" ->
                       [released EXCEPT !.power_enable = ~st.power_enable]
                  [] OTHER -> released
       ELSE st

\* a handler that classifies on every rising edge and restarts the press time
\* on every falling edge
ButtonChangeISRNoLatch(st, low, now) ==
  IF low
  THEN [st EXCEPT !.button_press = TRUE, !.button_press_millis = now]
  ELSE LET hold_millis == Sub32(now, st.button_press_millis)
           released    == [st EXCEPT !.button_press = FALSE,
                                     !.hold = << hold_millis >>]
       IN  CASE HoldClass(hold_millis) = "long" ->
                  [released EXCEPT !.config_enable = ~st.config_enable]
             [] HoldClass(hold_millis) = "short" ->
                  [released EXCEPT !.power_enable = ~st.power_enable,
                                   !.power_pin = ~st.power_enable]
             [] OTHER -> released

\* low: the level digitalRead(BUTTON_PIN) returns is LOW;
\* hold is history: the hold_millis of the release
ButtonChangeISR(st, low, now) ==
  IF low
  THEN IF ~st.button_press
       THEN [st EXCEPT !.button_press = TRUE, !.button_press_millis = now]
       ELSE st
  ELSE IF st.button_press
       THEN LET hold_millis == Sub32(now, st.button_press_millis)
                released    == [st EXCEPT !.button_press = FALSE,
                                          !.hold = << hold_millis >>]
            IN  CASE HoldClass(hold_millis) = "long" ->
                       [released EXCEPT !.config_enable = ~st.config_enable]
                  [] HoldClass(hold_millis) = "short" ->
                       [released EXCEPT !.power_enable = ~st.power_enable,
                                        !.power_pin = ~st.power_enable]
                  [] OTHER -> released
       ELSE st

(***************************************************************************)
(* MQTTCallback                                                            *)
(***************************************************************************)
\* a decoder that compares "on" and "off" with strcmp
DecodeCaseSensitive(payload) ==
  LET str == PayloadBuf(payload)
  IN  IF strcmpEq(str, "on") \/ strcasecmpEq(str, "true") \/ strcmpEq(str, "1")
      THEN "on"
      ELSE IF strcmpEq(str, "off") \/ strcasecmpEq(str, "false") \/ strcmpEq(str, "0")
      THEN "off"
      ELSE "none"

\* what the payload asks for: "on", "off" or "none"
Decode(payload) ==
  LET str == PayloadBuf(payload)
  IN  IF strcasecmpEq(str, "on") \/ strcasecmpEq(str, "true") \/ strcmpEq(str, "1")
      THEN "on"
      ELSE IF strcasecmpEq(str, "off") \/ strcasecmpEq(str, "false") \/ strcmpEq(str, "0")
      THEN "off"
      ELSE "none"

MQTTCallback(st, topic, payload) ==
  IF strncmpEq(topic, st.settings.mqtt_control_topic, FieldSize("config").mqtt_control_topic)
  THEN CASE Decode(payload) = "on" -> [st EXCEPT !.power_enable = TRUE]
         [] Decode(payload) = "off" -> [st EXCEPT !.power_enable = FALSE]
         [] OTHER -> st
  ELSE st

(***************************************************************************)
(* The console: tokenSplit, SettingsReadWriteHelper, PollBluetoothCommand  *)
(***************************************************************************)
\* bt.println(line)
Say(st, line) == [st EXCEPT !.said = Append(@, line)]

SaveSettings(st) == Call([st EXCEPT !.eeprom = st.settings], "EEPROM.put")

isspace(c) == c \in {" ", "\t", "\n", "\r", "\f"}

\* a position in the line buffer: 1 .. Len(buf) + 1, the last being the
\* terminating zero; 0 is nullptr
RECURSIVE SkipSpaces(_, _)
SkipSpaces(buf, i) ==
  IF i <= Len(buf) /\ isspace(SubSeq(buf, i, i)) THEN SkipSpaces(buf, i + 1) ELSE i

RECURSIVE SkipWord(_, _)
SkipWord(buf, i) ==
  IF i <= Len(buf) /\ ~isspace(SubSeq(buf, i, i)) THEN SkipWord(buf, i + 1) ELSE i

\* returns [token |-> NullPtr or Ptr(the token), ptr |-> the new position]
tokenSplit(buf, ptr) ==
  IF ptr = 0 THEN [token |-> NullPtr, ptr |-> 0]
  ELSE LET from == SkipSpaces(buf, ptr)
       IN  IF from > Len(buf) THEN [token |-> NullPtr, ptr |-> from]
           ELSE LET to == SkipWord(buf, from + 1)
                IN  [token |-> Ptr(SubSeq(buf, from, to - 1)),
                     ptr |-> IF to <= Len(buf) THEN to + 1 ELSE 0]

Digits == {"0", "1", "2", "3", "4", "5", "6", "7", "8", "9"}

DigitValue(c) ==
  CASE c = "0" -> 0 [] c = "1" -> 1 [] c = "2" -> 2 [] c = "3" -> 3 [] c = "4" -> 4
    [] c = "5" -> 5 [] c = "6" -> 6 [] c = "7" -> 7 [] c = "8" -> 8 [] c = "9" -> 9

RECURSIVE AtoiFrom(_, _, _)
AtoiFrom(str, i, acc) ==
  IF i <= Len(str) /\ SubSeq(str, i, i) \in Digits
  THEN AtoiFrom(str, i + 1, 10 * acc + DigitValue(SubSeq(str, i, i)))
  ELSE acc

\* atoi(str), for values that fit an int
atoi(str) ==
  LET from == SkipSpaces(str, 1)
  IN  IF from <= Len(str) /\ SubSeq(str, from, from) = "-"
      THEN 0 - AtoiFrom(str, from + 1, 0)
      ELSE IF from <= Len(str) /\ SubSeq(str, from, from) = "+"
      THEN AtoiFrom(str, from + 1, 0)
      ELSE AtoiFrom(str, from, 0)

UINT16_MAX == 65535

\* a helper that stores "-" as it is
SettingsReadWriteHelperKeepsDash(v, st, field, new_value) ==
  IF new_value # NullPtr
  THEN [st |-> Say(SaveSettings([st EXCEPT !.settings[field] =
                                   StrNCpy(new_value[1], FieldSize(v)[field])]),
                   "Settings saved."),
        ret |-> TRUE]
  ELSE [st |-> Say(st, st.settings[field]), ret |-> FALSE]

\* returns [st, ret]; field names the member of settings
SettingsReadWriteHelper(v, st, field, new_value) ==
  IF new_value # NullPtr
  THEN LET value == IF new_value[1] # "-"
                    THEN StrNCpy(new_value[1], FieldSize(v)[field])
                    ELSE ""
       IN  [st |-> Say(SaveSettings([st EXCEPT !.settings[field] = value]),
                       "Settings saved."),
            ret |-> TRUE]
  ELSE [st |-> Say(st, st.settings[field]), ret |-> FALSE]

PortString(port) == ToString(port)

\* the commands of PollBluetoothCommand other than setup, for a line whose
\* first token is cmd
Command(v, st, buf, cmd, ptr) ==
  LET t1 == tokenSplit(buf, ptr)
      t2 == tokenSplit(buf, t1.ptr)
      a1 == t1.token
      a2 == t2.token
      rw(field) == SettingsReadWriteHelper(v, st, field, a1)
  IN  CASE cmd = "help" -> Say(st, "Help:")
        [] cmd = "on" -> [st EXCEPT !.power_enable = TRUE]
        [] cmd = "off" -> [st EXCEPT !.power_enable = FALSE]
        [] cmd = "status" -> Say(st, IF st.power_enable THEN "on" ELSE "off")
        [] cmd = "device-name" ->
             IF rw("device_name").ret THEN RestartWiFi(rw("device_name").st)
             ELSE rw("device_name").st
        [] cmd = "mqtt-status" -> Say(st, st.mqtt_state)
        [] cmd = "mqtt-server" ->
             IF rw("mqtt_server").ret THEN RestartMQTT(rw("mqtt_server").st)
             ELSE rw("mqtt_server").st
        [] cmd = "mqtt-port" ->
             IF a1 # NullPtr
             THEN LET p == atoi(a1[1])
                  IN  IF p < 1 \/ p > UINT16_MAX
                      THEN Say(st, "Error: invalid port number")
                      ELSE RestartMQTT(Say(SaveSettings([st EXCEPT !.settings.mqtt_port = p]),
                                           "Settings saved!"))
             ELSE Say(st, PortString(st.settings.mqtt_port))
        [] cmd = "mqtt-id" ->
             IF rw("mqtt_id").ret THEN RestartMQTT(rw("mqtt_id").st)
             ELSE rw("mqtt_id").st
        [] cmd = "mqtt-auth" ->
             IF a1 = NullPtr THEN Say(st, "Error: must specify user")
             ELSE RestartMQTT(Say(SaveSettings(
                    [st EXCEPT !.settings.mqtt_user = StrNCpy(a1[1], FieldSize(v).mqtt_user),
                               !.settings.mqtt_password =
                                  IF a2 # NullPtr
                                  THEN StrNCpy(a2[1], FieldSize(v).mqtt_password)
                                  ELSE ""]), "Settings saved!"))
        [] cmd = "mqtt-control-topic" ->
             IF rw("mqtt_control_topic").ret THEN MqttDisconnect(rw("mqtt_control_topic").st)
             ELSE rw("mqtt_control_topic").st
        [] cmd = "mqtt-status-topic" ->
             IF rw("mqtt_status_topic").ret THEN RestartMQTT(rw("mqtt_status_topic").st)
             ELSE rw("mqtt_status_topic").st
        [] cmd = "wifi" ->
             IF a1 = NullPtr THEN Say(st, "Error: must specify SSID")
             ELSE RestartWiFi(Say(SaveSettings(
                    [st EXCEPT !.settings.wifi_ssid = StrNCpy(a1[1], FieldSize(v).wifi_ssid),
                               !.settings.wifi_password =
                                  IF a2 # NullPtr
                                  THEN StrNCpy(a2[1], FieldSize(v).wifi_password)
                                  ELSE ""]), "Settings saved!"))
        [] cmd = "wifi-status" -> Say(st, st.wifi_status)
        [] OTHER -> Say(st, "Error: command not found")

\* httpPOSTSettings: form gives the arguments of the request; nothing is
\* restarted
httpPOSTSettings(v, st, form) ==
  LET arg(field) == SubSeq(form[field], 1, Min(Len(form[field]), FieldSize(v)[field]))
      mysettings ==
        [ header |-> SETTINGS_HEADER(v),
          device_name |-> arg("device_name"),
          wifi_ssid |-> arg("wifi_ssid"),
          wifi_password |-> arg("wifi_password"),
          mqtt_server |-> arg("mqtt_server"),
          mqtt_port |-> atoi(form.mqtt_port) % (UINT16_MAX + 1),
          mqtt_id |-> arg("mqtt_id"),
          mqtt_user |-> arg("mqtt_user"),
          mqtt_password |-> arg("mqtt_password"),
          mqtt_control_topic |-> arg("mqtt_control_topic"),
          mqtt_status_topic |-> arg("mqtt_status_topic") ]
  IN  Call(SaveSettings([st EXCEPT !.settings = mysettings]), "web_server.send")

(***************************************************************************)
(* loop(), statement by statement                                          *)
(***************************************************************************)
\* the statics of loop() are initialised when control first passes them
EnterLoop(st) ==
  IF st.loop_entered THEN st
  ELSE [st EXCEPT !.loop_entered = TRUE,
                  !.last_power_enable = st.power_enable,
                  !.last_config_enable = st.config_enable]

\* bt.end(): the transport stops and its client is gone
BtEnd(st) == Call([st EXCEPT !.bt_started = FALSE, !.bt_has_client = FALSE], "bt.end")

\* if (config_enable != last_config_enable) { ... }
GateEdge(v, st, now) ==
  IF st.config_enable # st.last_config_enable
  THEN LET seen == [st EXCEPT !.last_config_enable = st.config_enable]
       IN  IF st.config_enable
           THEN IF v = "bluetooth"
                THEN Call([seen EXCEPT !.bluetooth_enable_millis = now,
                                       !.bt_started = TRUE], "bt.begin")
                ELSE Call(Call([seen EXCEPT !.bt_started = TRUE, !.ap_started = TRUE],
                               "bt.begin"), "web_server.begin")
           ELSE IF v = "bluetooth"
                THEN BtEnd(seen)
                ELSE RestartWiFi(Call([BtEnd(seen) EXCEPT !.ap_started = FALSE],
                                      "web_server.stop"))
  ELSE st

\* the console block with the idle timeout tested whether or not a client is
\* attached
ClientEdgeAnyClient(v, st, now) ==
  LET bluetooth_has_client == st.bt_has_client
      edge == bluetooth_has_client # st.last_bluetooth_has_client
      seen ==
        IF edge
        THEN IF bluetooth_has_client
             THEN Say([st EXCEPT !.last_bluetooth_has_client = TRUE], "Help:")
             ELSE [st EXCEPT !.last_bluetooth_has_client = FALSE,
                             !.bluetooth_disconnected_millis =
                                IF v = "config" THEN now ELSE @,
                             !.detach_seen = TRUE,
                             !.detach_millis = now]
        ELSE st
      since == IF v = "bluetooth" THEN seen.bluetooth_enable_millis
               ELSE seen.bluetooth_disconnected_millis
  IN  IF Ge32(Sub32(now, since), ULong(CONFIG_TIMEOUT_MILLIS))
      THEN Call([seen EXCEPT !.config_enable = FALSE], "timeout")
      ELSE seen

\* the client attach/detach edge and the idle timeout of the console block
ClientEdge(v, st, now) ==
  LET bluetooth_has_client == st.bt_has_client
      edge == bluetooth_has_client # st.last_bluetooth_has_client
      seen ==
        IF edge
        THEN IF bluetooth_has_client
             THEN Say([st EXCEPT !.last_bluetooth_has_client = TRUE], "Help:")
             ELSE [st EXCEPT !.last_bluetooth_has_client = FALSE,
                             !.bluetooth_disconnected_millis =
                                IF v = "config" THEN now ELSE @,
                             !.detach_seen = TRUE,
                             !.detach_millis = now]
        ELSE st
      since == IF v = "bluetooth" THEN seen.bluetooth_enable_millis
               ELSE seen.bluetooth_disconnected_millis
      \* history: what the timeout test was made with, and its outcome
      test(cleared) == [detached |-> seen.detach_seen,
                        elapsed |-> Sub32(now, seen.detach_millis),
                        cleared |-> cleared]
  IN  IF bluetooth_has_client THEN seen
      ELSE IF Ge32(Sub32(now, since), ULong(CONFIG_TIMEOUT_MILLIS))
      THEN Call([seen EXCEPT !.config_enable = FALSE, !.idle = Append(@, test(TRUE))],
                "timeout")
      ELSE [seen EXCEPT !.idle = Append(@, test(FALSE))]

\* the messages the broker sends for a subscription
Delivered(filter) ==
  IF filter = "" THEN {}
  ELSE IF filter = "sw/#" THEN {"sw/set", "sw/x"}
  ELSE {filter}

NoMsg == [topic |-> "", payload |-> << >>]

\* mqtt.loop(): lost says the client finds its connection gone; msg is the
\* message it reads, NoMsg for none
MqttLoop(st, lost, msg) ==
  IF st.mqtt_state # "CONNECTED" THEN st
  ELSE IF lost THEN [st EXCEPT !.mqtt_state = "CONNECTION_LOST", !.subscribed = ""]
  ELSE IF msg # NoMsg /\ msg.topic \in Delivered(st.subscribed)
  THEN MQTTCallback(Call(st, "MQTTCallback"), msg.topic, msg.payload)
  ELSE st

BLINK_NO_WIFI == 250
BLINK_NO_MQTT == 1000
BLINK_CONNECTED_BT == 5000
BLINK_CONNECTED_CFG == 10000
BLINK_ON_MILLIS == 100

\* the status LED
Blink(v, st, now) ==
  LET blink_duration == Sub32(now, st.blink_millis)
  IN  IF v = "bluetooth"
      THEN IF st.blink_period = 0 THEN [st EXCEPT !.status_led = TRUE]
           ELSE IF Ge32(blink_duration, ULong(st.blink_period))
           THEN [st EXCEPT !.blink_millis = now, !.status_led = ~st.status_led]
           ELSE st
      ELSE IF Ge32(blink_duration, ULong(st.blink_period))
           THEN [st EXCEPT !.status_led = TRUE, !.blink_millis = now]
           ELSE IF Ge32(blink_duration, ULong(BLINK_ON_MILLIS))
           THEN [st EXCEPT !.status_led = FALSE]
           ELSE st

\* EnsureWiFi(), EnsureMQTT(), mqtt.loop() and the blink period
\* links that call EnsureMQTT whatever EnsureWiFi returned
LinksBusAlways(v, st, now, success, lost, msg) ==
  LET w == EnsureWiFi(st, st.settings, now)
      m == EnsureMQTT(v, w.st, w.st.settings, now, success)
  IN  IF ~m.ret THEN [m.st EXCEPT !.blink_period = BLINK_NO_MQTT]
      ELSE [MqttLoop(m.st, lost, msg) EXCEPT
              !.blink_period = IF v = "bluetooth" THEN BLINK_CONNECTED_BT
                               ELSE BLINK_CONNECTED_CFG]

Links(v, st, now, success, lost, msg) ==
  LET w == EnsureWiFi(st, st.settings, now)
      m == EnsureMQTT(v, w.st, w.st.settings, now, success)
  IN  IF ~w.ret THEN [w.st EXCEPT !.blink_period = BLINK_NO_WIFI]
      ELSE IF ~m.ret THEN [m.st EXCEPT !.blink_period = BLINK_NO_MQTT]
      ELSE [MqttLoop(m.st, lost, msg) EXCEPT
              !.blink_period = IF v = "bluetooth" THEN BLINK_CONNECTED_BT
                               ELSE BLINK_CONNECTED_CFG]

(***************************************************************************)
(* Setup(): the interactive dialogue of the config sketch.  It runs inside *)
(* PollBluetoothCommand and waits for the client and the network; each     *)
(* wait is a place of pc.                                                  *)
(***************************************************************************)
RECURSIVE StripRight(_)
StripRight(str) ==
  IF Len(str) > 0 /\ isspace(SubSeq(str, Len(str), Len(str)))
  THEN StripRight(SubSeq(str, 1, Len(str) - 1))
  ELSE str

\* StrStrip
StrStrip(str) == StripRight(SubSeq(str, SkipSpaces(str, 1), Len(str)))

\* BluetoothReadLine(line, linesize) for a client that sends text and '\n'
BluetoothReadLine(text, linesize) ==
  StrStrip(SubSeq(text, 1, Min(Len(text), linesize - 1)))

\* Setup() up to the first prompt
SetupStart(st) ==
  Say(RestartWiFi([st EXCEPT !.mysettings = st.settings]), "WiFi SSID:")

\* Setup() returned false
SetupFailed(st) == Say(st, "Setup failed! Try again.")

\* the client answered the WiFi prompts (or went away): returns [st, pc]
SetupWiFi(v, st, now, ssid, password) ==
  LET read == [st EXCEPT
                 !.mysettings.wifi_ssid =
                    BluetoothReadLine(ssid, FieldSize(v).wifi_ssid),
                 !.mysettings.wifi_password =
                    BluetoothReadLine(password, FieldSize(v).wifi_password)]
  IN  IF ~st.bt_has_client THEN [st |-> SetupFailed(read), pc |-> "client"]
      ELSE [st |-> [EnsureWiFi(Say(read, "Connecting to WiFi... "), read.mysettings, now).st
                      EXCEPT !.start = now],
            pc |-> "setup_wifi"]

SetupTimedOut(st, now) == Ge32(Sub32(now, st.start), ULong(SETUP_TIMEOUT_MILLIS))

\* the wait for WiFi ends
SetupWiFiDone(st, now) ==
  \/ ~st.bt_has_client
  \/ st.wifi_status \in {"CONNECTED", "CONNECT_FAILED"}
  \/ SetupTimedOut(st, now)

SetupWiFiWait(st, now) ==
  IF ~st.bt_has_client THEN [st |-> SetupFailed(st), pc |-> "client"]
  ELSE IF st.wifi_status = "CONNECTED"
  THEN [st |-> Say(Say(st, "Connected!"), "MQTT server:"), pc |-> "setup_server"]
  ELSE IF st.wifi_status = "CONNECT_FAILED"
  THEN [st |-> SetupFailed(Say(st, "Connection failed!")), pc |-> "client"]
  ELSE [st |-> SetupFailed(Say(st, "Timed out!")), pc |-> "client"]

\* the client answered the MQTT prompts (or went away)
SetupServer(v, st, now, server, user, password, success) ==
  LET named == [st EXCEPT
                  !.mysettings.mqtt_server =
                     BluetoothReadLine(server, FieldSize(v).mqtt_server),
                  !.mysettings.mqtt_user =
                     BluetoothReadLine(user, FieldSize(v).mqtt_user)]
      read == IF Len(named.mysettings.mqtt_user) > 0
              THEN [named EXCEPT !.mysettings.mqtt_password =
                      BluetoothReadLine(password, FieldSize(v).mqtt_password)]
              ELSE named
  IN  IF ~st.bt_has_client THEN [st |-> SetupFailed(read), pc |-> "client"]
      ELSE [st |-> [EnsureMQTT(v, Say(read, "Connecting to MQTT server... "),
                               read.mysettings, now, success).st
                      EXCEPT !.start = now],
            pc |-> "setup_mqtt"]

\* one pass of the wait for MQTT
SetupMqttWait(st, now, lost, msg) ==
  IF ~st.bt_has_client THEN [st |-> SetupFailed(st), pc |-> "client"]
  ELSE LET polled == MqttLoop(st, lost, msg)
       IN  IF polled.mqtt_state = "CONNECTED"
           THEN [st |-> Say(Say(polled, "Connected!"), "MQTT control topic:"),
                 pc |-> "setup_topics"]
           ELSE IF polled.mqtt_state = "CONNECT_FAILED"
           THEN [st |-> SetupFailed(Say(polled, "Connection failed!")), pc |-> "client"]
           ELSE IF SetupTimedOut(polled, now)
           THEN [st |-> SetupFailed(Say(polled, "Timed out!")), pc |-> "client"]
           ELSE [st |-> polled, pc |-> "setup_mqtt"]

\* the client answered the topic prompts (or went away)
SetupTopics(v, st, control, status) ==
  LET read == [st EXCEPT
                 !.mysettings.mqtt_control_topic =
                    BluetoothReadLine(control, FieldSize(v).mqtt_control_topic),
                 !.mysettings.mqtt_status_topic =
                    BluetoothReadLine(status, FieldSize(v).mqtt_status_topic)]
  IN  IF ~st.bt_has_client THEN [st |-> SetupFailed(read), pc |-> "client"]
      ELSE [st |-> RestartMQTT(Say(SaveSettings([read EXCEPT !.settings = read.mysettings]),
                                   "Settings saved!")),
            pc |-> "client"]

(***************************************************************************)
(* Bounds and inputs.                                                      *)
(***************************************************************************)
MaxTicks == 3
MaxEdges == 2
MaxCmds == 1
MaxMsgs == 1
MaxNet == 2
WholeTicks == 2
ButtonTicks == 2
ButtonEdges == 4
ButtonNet == 1

\* how far the clock moves between two steps
Deltas == { ULong(50), ULong(5000) }

ConfiguredSettings(v) ==
  [DefaultSettings(v) EXCEPT !.wifi_ssid = "net", !.wifi_password = "pw",
                             !.mqtt_server = "10.0.0.2",
                             !.mqtt_control_topic = "sw/set",
                             !.mqtt_status_topic = "sw/state"]

\* an erased EEPROM
ErasedSettings(v) == [DefaultSettings(v) EXCEPT !.header = 255]

Stored(v) == { ErasedSettings(v), ConfiguredSettings(v) }

\* lines a console client sends
Lines ==
  { "on", "off", "status", "setup", "frobnicate", "mqtt-server -", "mqtt-server",
    "mqtt-control-topic sw/#", "mqtt-status-topic -", "wifi net pw" }

\* web forms a browser posts
Forms ==
  { [device_name |-> "", wifi_ssid |-> "", wifi_password |-> "", mqtt_server |-> "",
     mqtt_port |-> "1883", mqtt_id |-> "", mqtt_user |-> "", mqtt_password |-> "",
     mqtt_control_topic |-> "", mqtt_status_topic |-> ""],
    [device_name |-> "sw", wifi_ssid |-> "net", wifi_password |-> "pw",
     mqtt_server |-> "10.0.0.2", mqtt_port |-> "1883", mqtt_id |-> "",
     mqtt_user |-> "", mqtt_password |-> "",
     mqtt_control_topic |-> "sw/x", mqtt_status_topic |-> "sw/state"] }

\* payloads a publisher sends
Payloads == { Bytes("ON"), Bytes("off"), Bytes("maybe") }

Topics == {"sw/set", "sw/x", "sw/state"}

Messages == [topic : Topics, payload : Payloads]

\* answers a console client gives to the prompts of Setup()
SsidAnswers == {"net", ""}
ServerAnswers == {"10.0.0.2", ""}
ControlAnswers == {"sw/set"}
StatusAnswers == {"sw/state", ""}

Spend(what) == [budget EXCEPT ![what] = @ - 1]

\* The clock, the radio and the console client are looked at between two
\* iterations of loop() and wherever Setup() waits for them.
Waiting == pc \in {"gate", "setup_ssid", "setup_wifi", "setup_server", "setup_mqtt",
                   "setup_topics"}

\* the input of one pass of the console block: nothing, a posted web form or a
\* line of the console client
NoInput == [kind |-> "none"]

Inputs ==
  {NoInput} \cup [kind : {"form"}, form : Forms] \cup [kind : {"line"}, buf : Lines]

\* may the console block get this input in state st
Readable(v, st, input) ==
  \/ input.kind = "none"
  \/ /\ input.kind = "form"
     /\ budget.cmds > 0
     /\ v = "config" /\ st.config_enable /\ st.ap_started
  \/ /\ input.kind = "line"
     /\ budget.cmds > 0
     /\ st.config_enable /\ st.bt_has_client
     /\ tokenSplit(input.buf, 1).token # NullPtr

\* history: the input the console block of this step gets
Given(st, input) ==
  [st EXCEPT !.input = input.kind,
             !.line = IF input.kind = "line" THEN input.buf ELSE ""]

\* a console block that is run whether or not config_enable is true
ConsoleBlockUngated(v, st, input) ==
  IF input.kind = "form"
  THEN [st |-> httpPOSTSettings(v, st, input.form), pc |-> "client"]
  ELSE IF input.kind = "line"
  THEN LET first == tokenSplit(input.buf, 1)
           cmd   == first.token[1]
       IN  IF cmd = "setup" /\ v = "config"
           THEN [st |-> SetupStart(st), pc |-> "setup_ssid"]
           ELSE [st |-> Command(v, st, input.buf, cmd, first.ptr), pc |-> "client"]
  ELSE [st |-> st, pc |-> (IF st.config_enable THEN "client" ELSE "links")]

\* web_server.handleClient() and PollBluetoothCommand(): returns [st, pc], pc
\* being where loop() goes on
ConsoleBlock(v, st, input) ==
  IF ~st.config_enable THEN [st |-> st, pc |-> "links"]
  ELSE IF input.kind = "form"
  THEN [st |-> httpPOSTSettings(v, st, input.form), pc |-> "client"]
  ELSE IF input.kind = "line"
  THEN LET first == tokenSplit(input.buf, 1)
           cmd   == first.token[1]
       IN  IF cmd = "setup" /\ v = "config"
           THEN [st |-> SetupStart(st), pc |-> "setup_ssid"]
           ELSE [st |-> Command(v, st, input.buf, cmd, first.ptr), pc |-> "client"]
  ELSE [st |-> st, pc |-> "client"]

\* a loop() that publishes the status in every iteration
ReconcileEveryIteration(st) ==
  PublishStatus([st EXCEPT !.last_power_enable = st.power_enable,
                           !.power_pin = st.power_enable])

\* if (power_enable != last_power_enable) { ... } without an interrupt in it
Reconcile(st) ==
  IF st.power_enable # st.last_power_enable
  THEN PublishStatus([st EXCEPT !.last_power_enable = st.power_enable,
                                !.power_pin = st.power_enable])
  ELSE st

\* what mqtt.loop() may meet in a state where the client is connected: nothing,
\* a lost connection, or a message of a subscribed topic
Quiet == [lost |-> FALSE, msg |-> NoMsg]

BusEvents(st, messages) ==
  {Quiet}
    \cup (IF st.mqtt_state = "CONNECTED" /\ budget.net > 0
          THEN {[lost |-> TRUE, msg |-> NoMsg]} ELSE {})
    \cup (IF st.mqtt_state = "CONNECTED" /\ budget.msgs > 0
          THEN {[lost |-> FALSE, msg |-> m] :
                   m \in {mm \in messages : mm.topic \in Delivered(st.subscribed)}}
          ELSE {})

\* what the bus event costs
Cost(b, ev) ==
  IF ev.lost THEN [b EXCEPT !.net = @ - 1]
  ELSE IF ev.msg # NoMsg THEN [b EXCEPT !.msgs = @ - 1] ELSE b

(***************************************************************************)
(* Actions of the environment.                                             *)
(***************************************************************************)
Budget(ticks, edges, cmds, msgs, net) ==
  [ticks |-> ticks, edges |-> edges, cmds |-> cmds, msgs |-> msgs, net |-> net]

\* the state at reset, before setup() runs
InitWith(b) ==
  /\ variant \in Variants
  /\ clock = Zero32
  /\ pc = "setup"
  /\ s \in { Boot(variant, stored) : stored \in Stored(variant) }
  /\ budget = b

Init == InitWith(Budget(WholeTicks, MaxEdges, MaxCmds, MaxMsgs, MaxNet))

\* a setup() that takes whatever the EEPROM holds
SketchSetupLoadsAlways ==
  /\ pc = "setup"
  /\ s' = Begin([s EXCEPT !.settings = s.eeprom], "setup")
  /\ pc' = "gate"
  /\ UNCHANGED << variant, clock, budget >>

\* setup(): the settings are taken from the EEPROM if the header byte matches
SketchSetup ==
  /\ pc = "setup"
  /\ s' = Begin(IF s.eeprom.header = SETTINGS_HEADER(variant)
                THEN [s EXCEPT !.settings = s.eeprom]
                ELSE s, "setup")
  /\ pc' = "gate"
  /\ UNCHANGED << variant, clock, budget >>

\* time passes
TickBy(deltas) ==
  /\ Waiting
  /\ budget.ticks > 0
  /\ \E d \in deltas : clock' = Add32(clock, d)
  /\ budget' = Spend("ticks")
  /\ UNCHANGED << variant, pc, s >>

Tick == TickBy(Deltas)

\* the interrupt handler has run
Interrupted(st) == [st EXCEPT !.spared = << 0 >>]

\* loop() has returned
Returned(st) ==
  [st EXCEPT !.spared = IF @ = << >> THEN @ ELSE << IF @[1] < 2 THEN @[1] + 1 ELSE 2 >>]

\* mqtt.publish() reaches the broker when the client is connected
Sent(st) ==
  IF st.pubs # << >> /\ st.pubs[Len(st.pubs)].connected
  THEN [st EXCEPT !.sent = << st.pubs[Len(st.pubs)].power >>]
  ELSE st

\* the history a step notes: none unless the specification follows it
Noted(note, st) ==
  CASE note = "interrupted" -> Interrupted(st)
    [] note = "returned" -> Returned(st)
    [] note = "published" -> Returned(Sent(st))
    [] OTHER -> st

\* the button pin changes and the interrupt handler runs
EdgeNoting(note) ==
  /\ pc # "setup"
  /\ budget.edges > 0
  /\ \E low \in BOOLEAN :
       s' = Noted(note, ButtonChangeISR(Begin(s, IF low THEN "isr_low" ELSE "isr_high"),
                                        low, clock))
  /\ budget' = Spend("edges")
  /\ UNCHANGED << variant, clock, pc >>

ButtonEdge == EdgeNoting("nothing")

\* the radio finishes, fails or loses a connection
WiFiEvent ==
  /\ Waiting
  /\ budget.net > 0
  /\ \/ /\ s.wifi_connecting
        /\ \E result \in {"CONNECTED", "CONNECT_FAILED"} :
             s' = [s EXCEPT !.wifi_status = result, !.wifi_connecting = FALSE]
     \/ /\ s.wifi_status = "CONNECTED"
        /\ s' = [s EXCEPT !.wifi_status = "DISCONNECTED"]
  /\ budget' = Spend("net")
  /\ UNCHANGED << variant, clock, pc >>

\* a Bluetooth client attaches or detaches
BtClient ==
  /\ Waiting
  /\ budget.net > 0
  /\ s.bt_started
  /\ s' = [s EXCEPT !.bt_has_client = ~s.bt_has_client]
  /\ budget' = Spend("net")
  /\ UNCHANGED << variant, clock, pc >>

(***************************************************************************)
(* One iteration of loop() with no interrupt in it.                        *)
(***************************************************************************)
\* loop() from the client edge (from = "client") or from EnsureWiFi() to its end
Rest(v, st, now, from, success, ev) ==
  LET c == IF from = "client" THEN ClientEdge(v, st, now) ELSE st
  IN  Reconcile(Blink(v, Links(v, c, now, success, ev.lost, ev.msg), now))

Finish(st, from) ==
  \E success \in BOOLEAN :
    LET quiet == Rest(variant, st, clock, from, success, Quiet)
    IN  \E ev \in BusEvents(quiet, Messages) :
          LET next == Rest(variant, st, clock, from, success, ev)
          IN  /\ ev # Quiet => next # quiet
              /\ s' = [next EXCEPT !.msg = ev.msg]
              /\ budget' = Cost(IF st.op = "loop" /\ st.input # "none"
                                THEN Spend("cmds") ELSE budget, ev)

IterateWith(inputs) ==
  /\ pc = "gate"
  /\ LET g == GateEdge(variant, EnterLoop(Begin(s, "loop")), clock)
     IN  \E input \in inputs :
           /\ Readable(variant, g, input)
           /\ LET c == ConsoleBlock(variant, Given(g, input), input)
              IN  IF c.pc = "setup_ssid"
                  THEN /\ s' = c.st
                       /\ pc' = "setup_ssid"
                       /\ budget' = Spend("cmds")
                  ELSE /\ Finish(c.st, c.pc)
                       /\ pc' = "gate"
  /\ UNCHANGED << variant, clock >>

LoopIteration == IterateWith(Inputs)

\* loop() goes on after Setup() returned
LoopResume ==
  /\ pc = "client"
  /\ Finish(Begin(s, "resume"), "client")
  /\ pc' = "gate"
  /\ UNCHANGED << variant, clock >>

SetupStep ==
  /\ \/ /\ pc = "setup_ssid"
        /\ \E ssid \in SsidAnswers :
             LET r == SetupWiFi(variant, Begin(s, "setup_ssid"), clock, ssid, "pw")
             IN  s' = r.st /\ pc' = r.pc
     \/ /\ pc = "setup_wifi"
        /\ SetupWiFiDone(s, clock)
        /\ LET r == SetupWiFiWait(Begin(s, "setup_wifi"), clock)
           IN  s' = r.st /\ pc' = r.pc
     \/ /\ pc = "setup_server"
        /\ \E server \in ServerAnswers, success \in BOOLEAN :
             LET r == SetupServer(variant, Begin(s, "setup_server"), clock,
                                  server, "", "", success)
             IN  s' = r.st /\ pc' = r.pc
     \/ /\ pc = "setup_mqtt"
        /\ LET r == SetupMqttWait(Begin(s, "setup_mqtt"), clock, FALSE, NoMsg)
           IN  /\ r.pc # "setup_mqtt"
               /\ s' = r.st /\ pc' = r.pc
     \/ /\ pc = "setup_topics"
        /\ \E control \in ControlAnswers, status \in StatusAnswers :
             LET r == SetupTopics(variant, Begin(s, "setup_topics"), control, status)
             IN  s' = r.st /\ pc' = r.pc
  /\ UNCHANGED << variant, clock, budget >>

\* the whole device, loop() taken one iteration at a time
Next ==
  \/ SketchSetup
  \/ Tick
  \/ ButtonEdge
  \/ WiFiEvent
  \/ BtClient
  \/ LoopIteration
  \/ LoopResume
  \/ SetupStep

Spec == Init /\ [][Next]_vars

(***************************************************************************)
(* The links and the bus, the console gate staying closed.                 *)
(***************************************************************************)
LinkDeltas == { ULong(1), ULong(59999), Sub32(Zero32, ULong(1)) }

InitLinks == InitWith(Budget(MaxTicks, 0, 0, MaxMsgs, MaxNet))

TickLinks == TickBy(LinkDeltas)

LoopQuiet == IterateWith({NoInput})

NextLinks ==
  \/ SketchSetup
  \/ TickLinks
  \/ WiFiEvent
  \/ LoopQuiet

SpecLinks == InitLinks /\ [][NextLinks]_vars

(***************************************************************************)
(* The console gate and its idle timeout, nothing being typed.             *)
(***************************************************************************)
ConsoleDeltas == { ULong(1), ULong(5000), ULong(599999) }

InitConsole == InitWith(Budget(MaxTicks, MaxEdges, 0, 0, MaxNet))

TickConsole == TickBy(ConsoleDeltas)

NextConsole ==
  \/ SketchSetup
  \/ TickConsole
  \/ ButtonEdge
  \/ BtClient
  \/ LoopQuiet

SpecConsole == InitConsole /\ [][NextConsole]_vars

(***************************************************************************)
(* loop() statement by statement, the interrupt handler running between    *)
(* any two of them.                                                        *)
(***************************************************************************)
ButtonDeltas == { ULong(49), ULong(50), ULong(4999), ULong(5000) }

ButtonLines == { "on", "off" }

ButtonMessages == { [topic |-> "sw/set", payload |-> Bytes("ON")] }

ButtonInputs == {NoInput} \cup [kind : {"line"}, buf : ButtonLines]

InitButton == InitWith(Budget(ButtonTicks, ButtonEdges, MaxCmds, MaxMsgs, ButtonNet))

TickButton == TickBy(ButtonDeltas)

LoopGate ==
  /\ pc = "gate"
  /\ s' = GateEdge(variant, EnterLoop(Begin(s, "gate")), clock)
  /\ pc' = "console"
  /\ UNCHANGED << variant, clock, budget >>

\* the console block, its input being one of inputs
ConsoleWith(inputs) ==
  /\ pc = "console"
  /\ \E input \in inputs :
       /\ Readable(variant, s, input)
       /\ LET c == ConsoleBlock(variant, Given(Begin(s, "console"), input), input)
          IN  s' = c.st /\ pc' = c.pc
       /\ budget' = IF input = NoInput THEN budget ELSE Spend("cmds")
  /\ UNCHANGED << variant, clock >>

LoopConsole == ConsoleWith(ButtonInputs)

LoopClient ==
  /\ pc = "client"
  /\ s' = ClientEdge(variant, Begin(s, "client"), clock)
  /\ pc' = "links"
  /\ UNCHANGED << variant, clock, budget >>

LoopLinks ==
  /\ pc = "links"
  /\ \E success \in BOOLEAN :
       LET st    == Begin(s, "links")
           quiet == Blink(variant, Links(variant, st, clock, success, FALSE, NoMsg), clock)
       IN  \E ev \in BusEvents(quiet, ButtonMessages) :
             LET next == Blink(variant,
                               Links(variant, st, clock, success, ev.lost, ev.msg), clock)
             IN  /\ ev # Quiet => next # quiet
                 /\ s' = [next EXCEPT !.msg = ev.msg]
                 /\ budget' = Cost(budget, ev)
  /\ pc' = "cmp"
  /\ UNCHANGED << variant, clock >>

\* if (power_enable != last_power_enable)
CmpNoting(note) ==
  /\ pc = "cmp"
  /\ IF s.power_enable # s.last_power_enable
     THEN s' = Begin(s, "cmp") /\ pc' = "upd"
     ELSE s' = Noted(note, Begin(s, "cmp")) /\ pc' = "gate"
  /\ UNCHANGED << variant, clock, budget >>

LoopCmp == CmpNoting("nothing")

\* last_power_enable = power_enable;
LoopUpd ==
  /\ pc = "upd"
  /\ s' = [Begin(s, "upd") EXCEPT !.last_power_enable = s.power_enable]
  /\ pc' = "relay"
  /\ UNCHANGED << variant, clock, budget >>

\* digitalWrite(POWER_PIN, power_enable);
LoopRelay ==
  /\ pc = "relay"
  /\ s' = [Begin(s, "relay") EXCEPT !.power_pin = s.power_enable]
  /\ pc' = "publish"
  /\ UNCHANGED << variant, clock, budget >>

\* PublishStatus();
PublishNoting(note) ==
  /\ pc = "publish"
  /\ s' = Noted(note, PublishStatus(Begin(s, "publish")))
  /\ pc' = "gate"
  /\ UNCHANGED << variant, clock, budget >>

LoopPublish == PublishNoting("nothing")

NextButton ==
  \/ SketchSetup
  \/ TickButton
  \/ ButtonEdge
  \/ WiFiEvent
  \/ BtClient
  \/ LoopGate
  \/ LoopConsole
  \/ LoopClient
  \/ LoopLinks
  \/ LoopCmp
  \/ LoopUpd
  \/ LoopRelay
  \/ LoopPublish

SpecButton == InitButton /\ [][NextButton]_vars

(***************************************************************************)
(* MQTTCallback alone: one message handed to it in a state of a connected  *)
(* device.                                                                 *)
(***************************************************************************)
DecoderPayloads ==
  { Bytes("on"), Bytes("ON"), Bytes("On"), Bytes("true"), Bytes("TRUE"), Bytes("1"),
    Bytes("off"), Bytes("OFF"), Bytes("false"), Bytes("False"), Bytes("0"),
    Bytes("maybe"), Bytes(""), Bytes("o"), Bytes("onn"), Bytes("falsehood"),
    Bytes("trueblue"),
    << NUL >>, << "o", "n", NUL, "x" >>, << "o", "f", "f", NUL, "o", "n" >>,
    << "1", NUL >>, << "0", NUL, NUL, NUL, NUL, NUL, NUL, "1" >> }

DecoderTopics == { "sw/set", "sw/x", "sw/set2" }

ControlTopics == { "sw/set", "sw/#", "" }

\* a device that has loaded its settings and is connected to the broker
DecoderStates(v) ==
  { [Boot(v, ConfiguredSettings(v)) EXCEPT
       !.settings = [ConfiguredSettings(v) EXCEPT !.mqtt_control_topic = control],
       !.loop_entered = TRUE,
       !.power_enable = power, !.last_power_enable = power, !.power_pin = power,
       !.config_enable = gate, !.last_config_enable = gate,
       !.wifi_status = "CONNECTED", !.last_status = "CONNECTED",
       !.mqtt_state = "CONNECTED", !.last_state = "CONNECTED",
       !.subscribed = control] :
      control \in ControlTopics, power \in BOOLEAN, gate \in BOOLEAN }

InitDecoder ==
  /\ variant \in Variants
  /\ clock = Zero32
  /\ pc = "callback"
  /\ s \in DecoderStates(variant)
  /\ budget = Budget(0, 0, 0, MaxMsgs, 0)

Deliver ==
  /\ pc = "callback"
  /\ budget.msgs > 0
  /\ \E topic \in DecoderTopics, payload \in DecoderPayloads :
       s' = [MQTTCallback(Begin(s, "callback"), topic, payload) EXCEPT
               !.msg = [topic |-> topic, payload |-> payload]]
  /\ budget' = Spend("msgs")
  /\ UNCHANGED << variant, clock, pc >>

NextDecoder == Deliver

SpecDecoder == InitDecoder /\ [][NextDecoder]_vars

(***************************************************************************)
(* The button.                                                             *)
(***************************************************************************)
\* the step is a release the handler accepts
Release == s.button_press /\ ~s'.button_press

\* the hold duration of that release: release time minus recorded press time
HoldOfRelease == Sub32(clock, s.button_press_millis)

ShortHold(hold) == Ge32(hold, ULong(50)) /\ ~Ge32(hold, ULong(5000))

LongHold(hold) == Ge32(hold, ULong(5000))

\* the state is the one a release left, the hold classified by class
Released(class) ==
  /\ s.op = "isr_high"
  /\ s.hold # << >>
  /\ \A i \in 1 .. Len(s.hold) :
       CASE class = "short" -> ShortHold(s.hold[i])
         [] class = "long" -> LongHold(s.hold[i])
         [] OTHER -> ~Ge32(s.hold[i], ULong(50))

\* C1: a release after a hold of at least 50 ms and less than 5000 ms toggles
\* power_enable once and writes the new value to the relay pin in the handler,
\* at every position of the main loop and in every link state; the console
\* gate keeps its value.
C1_ShortPressTogglesPower ==
  [][ Release /\ ShortHold(HoldOfRelease)
        => /\ s'.power_enable = ~s.power_enable
           /\ s'.power_pin = s'.power_enable
           /\ s'.config_enable = s.config_enable ]_vars

\* a short release switched the power off again, WiFi being up and the main
\* loop in the middle of an iteration
C1_Witness ==
  /\ Released("short")
  /\ ~s.power_enable /\ s.last_power_enable
  /\ s.wifi_status = "CONNECTED"
  /\ pc \notin {"gate", "setup"}

\* C2: a release after a hold of at least 5000 ms toggles the console gate once
\* and changes neither power_enable nor the relay pin, also next to a write of
\* power_enable by the main loop.
C2_LongHoldTogglesGate ==
  [][ Release /\ LongHold(HoldOfRelease)
        => /\ s'.config_enable = ~s.config_enable
           /\ s'.power_enable = s.power_enable
           /\ s'.power_pin = s.power_pin ]_vars

\* a long release closed the gate right after the console block had switched
\* the power on, the loop not yet having written the relay
C2_Witness ==
  /\ Released("long")
  /\ ~s.config_enable /\ s.last_config_enable
  /\ s.power_enable /\ ~s.last_power_enable /\ ~s.power_pin
  /\ pc = "client"

\* C3: a release after a hold of less than 50 ms changes none of power_enable,
\* the console gate and the relay pin.
C3_BounceChangesNothing ==
  [][ Release /\ ~Ge32(HoldOfRelease, ULong(50))
        => /\ s'.power_enable = s.power_enable
           /\ s'.config_enable = s.config_enable
           /\ s'.power_pin = s.power_pin ]_vars

\* a release after 49 ms
C3_Witness ==
  /\ Released("bounce")
  /\ s.hold = << ULong(49) >>

\* C4: the console gate is closed at boot, and every step that opens it is a
\* release after a hold of at least 5000 ms.
C4_GateOpensOnlyByLongHold ==
  /\ [](pc = "setup" => ~s.config_enable)
  /\ [][ ~s.config_enable /\ s'.config_enable
           => Release /\ LongHold(HoldOfRelease) ]_vars

\* a long release has opened the gate
C4_Witness ==
  /\ Released("long")
  /\ s.config_enable /\ ~s.last_config_enable

(***************************************************************************)
(* The remote command decoder.                                             *)
(***************************************************************************)
FirstBytes(payload, n) == SubSeq(payload, 1, Min(Len(payload), n))

Lower(bytes) == [i \in 1 .. Len(bytes) |-> tolower(bytes[i])]

\* the bytes before the first zero byte
UpToZero(bytes) ==
  LET zeros == {i \in 1 .. Len(bytes) : bytes[i] = NUL}
  IN  IF zeros = {} THEN bytes
      ELSE SubSeq(bytes, 1, (CHOOSE i \in zeros : \A j \in zeros : i <= j) - 1)

AsksOn(text) == Lower(text) \in {Bytes("on"), Bytes("true"), Bytes("1")}

AsksOff(text) == Lower(text) \in {Bytes("off"), Bytes("false"), Bytes("0")}

\* what a step that delivers a message must do when text is what the decoder
\* compares
Decodes(text) ==
  /\ s'.msg.topic = s.settings.mqtt_control_topic
       => s'.power_enable = (IF AsksOn(text) THEN TRUE
                             ELSE IF AsksOff(text) THEN FALSE
                             ELSE s.power_enable)
  /\ s'.msg.topic # s.settings.mqtt_control_topic
       => s'.power_enable = s.power_enable
  /\ s'.config_enable = s.config_enable
  /\ s'.settings = s.settings

\* C5 as stated: the first 7 bytes of the payload are what is compared.
C5_AsStated ==
  [][ s'.op = "callback" => Decodes(FirstBytes(s'.msg.payload, 7)) ]_vars

\* C5: on the control topic the decoder compares the first 7 bytes of the
\* payload up to their first zero byte: on, true, 1 (ignoring case) set
\* power_enable, off, false, 0 clear it, anything else and any other topic
\* leave it; the gate and the settings are never changed.
C5_DecoderComparesCString ==
  [][ s'.op = "callback" => Decodes(UpToZero(FirstBytes(s'.msg.payload, 7))) ]_vars

\* ON on the control topic has switched the power on
C5_Witness ==
  /\ s.op = "callback"
  /\ s.msg = [topic |-> s.settings.mqtt_control_topic, payload |-> Bytes("ON")]
  /\ s.power_enable /\ ~s.last_power_enable

(***************************************************************************)
(* The status publisher.                                                   *)
(***************************************************************************)
\* C6 as stated: a bus connection that was accepted and has ended got exactly
\* one status publish, and none gets more than one.
C6_AsStated ==
  (Len(s.settings.mqtt_status_topic) > 0 /\ s.announced # << >>)
    => /\ s.announced[1] <= 1
       /\ s.mqtt_state # "CONNECTED" => s.announced[1] = 1

\* C7: every status publish is retained, goes to the configured status topic
\* and carries ON when power_enable is true and OFF when it is false at the
\* publish; with no status topic configured nothing is published.
C7_PublishIsRetainedStatus ==
  /\ \A i \in 1 .. Len(s.pubs) :
       /\ s.pubs[i].retained
       /\ s.pubs[i].topic = s.settings.mqtt_status_topic
       /\ s.pubs[i].payload = (IF s.pubs[i].power THEN "ON" ELSE "OFF")
  /\ Len(s.settings.mqtt_status_topic) = 0 => s.pubs = << >>

\* one iteration published OFF on seeing the bus connected and ON after a
\* message had switched the power on
C7_Witness ==
  /\ Len(s.pubs) = 2
  /\ s.pubs[1].payload = "OFF" /\ s.pubs[2].payload = "ON"
  /\ s.pubs[1].topic = "sw/state"

(***************************************************************************)
(* The link supervisors.                                                   *)
(***************************************************************************)
\* lastAttempt of the link an ensure call was made for, after the step
LastTry(link) == IF link = "wifi" THEN s.wifi_last_try ELSE s.mqtt_last_try

\* C8 as stated: an ensure call for a link that is down and has been tried
\* starts an attempt exactly if elapsed(now, lastAttempt) >= 60000, and an
\* attempt records lastAttempt = now.
C8_AsStated ==
  \A i \in 1 .. Len(s.ens) :
    LET a == s.ens[i]
    IN  /\ a.tried /\ a.endpoint /\ ~a.connected
          => (a.attempt <=> Ge32(Sub32(a.now, a.before), ULong(60000)))
        /\ a.attempt => LastTry(a.link) = a.now

C10_AsStated ==
  \A i \in 1 .. Len(s.idle) :
    s.idle[i].detached
      => (s.idle[i].cleared <=> Ge32(s.idle[i].elapsed, ULong(600000)))

(***************************************************************************)
(* The interval tests alone: the sketch takes a reference timestamp at     *)
(* millis() = since, the clock runs for a known time, and the test that    *)
(* uses the reference is made.                                             *)
(***************************************************************************)
\* 2^32 - n as unsigned long, for 0 < n < 2^31
FromTop(n) == Sub32(Zero32, ULong(n))

\* clock values at which references are taken
ElapsedSince ==
  { Zero32, ULong(1), ULong(4096), << 32767, 65535 >>, << 32768, 0 >>,
    FromTop(600000), FromTop(60000), FromTop(5000), FromTop(50), FromTop(1) }

\* how long the clock runs before the test: between 1 and 2^32 - 1
ElapsedWaits ==
  { ULong(1), ULong(6), ULong(49), ULong(50), ULong(99), ULong(100), ULong(249),
    ULong(250), ULong(4999), ULong(5000), ULong(59999), ULong(60000),
    ULong(599999), ULong(600000), << 32767, 65535 >>, << 32768, 0 >>, FromTop(1) }

ElapsedKinds == { "press", "wifi", "mqtt", "idle", "blink" }

\* a device in loop() with its settings loaded
Running(v) ==
  [Boot(v, ConfiguredSettings(v)) EXCEPT !.settings = ConfiguredSettings(v),
                                         !.loop_entered = TRUE,
                                         !.wifi_status = "DISCONNECTED",
                                         !.last_status = "DISCONNECTED"]

\* the state after the sketch took the reference of kind at millis() = since:
\* a press, a connection attempt, the opening of the gate (bluetooth) or the
\* detach of the client (config), a blink
Referenced(v, kind, since) ==
  CASE kind = "press" -> ButtonChangeISR(Running(v), TRUE, since)
    [] kind = "wifi" -> EnsureWiFi(Running(v), Running(v).settings, since).st
    [] kind = "mqtt" ->
         EnsureMQTT(v, [Running(v) EXCEPT !.wifi_status = "CONNECTED",
                                          !.last_status = "CONNECTED"],
                    Running(v).settings, since, FALSE).st
    [] kind = "idle" ->
         IF v = "bluetooth"
         THEN GateEdge(v, [Running(v) EXCEPT !.config_enable = TRUE], since)
         ELSE ClientEdge(v, [Running(v) EXCEPT !.config_enable = TRUE,
                                               !.last_config_enable = TRUE,
                                               !.bt_started = TRUE,
                                               !.ap_started = TRUE,
                                               !.last_bluetooth_has_client = TRUE],
                         since)
    [] kind = "blink" ->
         Blink(v, [Running(v) EXCEPT !.blink_period = BLINK_NO_WIFI,
                                     !.blink_millis = Sub32(since, ULong(BLINK_NO_WIFI))],
               since)

InitElapsed ==
  /\ variant \in Variants
  /\ clock \in ElapsedSince
  /\ pc \in ElapsedKinds
  /\ s = Begin(Referenced(variant, pc, clock), "reference")
  /\ budget = Budget(1, 0, 0, 0, 0)

\* the clock runs for d
Wait ==
  /\ pc \in ElapsedKinds
  /\ budget.ticks > 0
  /\ \E d \in ElapsedWaits :
       /\ clock' = Add32(clock, d)
       /\ s' = [s EXCEPT !.waited = << d >>]
  /\ budget' = Spend("ticks")
  /\ UNCHANGED << variant, pc >>

\* the code that tests the interval runs
Check ==
  /\ s.waited # << >>
  /\ \/ /\ pc = "press"
        /\ s' = ButtonChangeISR(Begin(s, "isr_high"), FALSE, clock)
     \/ /\ pc = "wifi"
        /\ s' = EnsureWiFi(Begin(s, "links"), s.settings, clock).st
     \/ /\ pc = "mqtt"
        /\ \E success \in BOOLEAN :
             s' = EnsureMQTT(variant, Begin(s, "links"), s.settings, clock, success).st
     \/ /\ pc = "idle"
        /\ s' = ClientEdge(variant, Begin(s, "client"), clock)
     \/ /\ pc = "blink"
        /\ s' = Blink(variant, Begin(s, "blink"), clock)
  /\ pc' = "checked"
  /\ UNCHANGED << variant, clock, budget >>

NextElapsed ==
  \/ Wait
  \/ Check

SpecElapsed == InitElapsed /\ [][NextElapsed]_vars

(***************************************************************************)
(* Wrap-safe durations.                                                    *)
(***************************************************************************)
\* the clock has run for d, and the test of the interval kind was made
Checked(kind) ==
  /\ pc = "checked"
  /\ s.op = (CASE kind = "press" -> "isr_high"
               [] kind = "idle" -> "client"
               [] kind = "blink" -> "blink"
               [] OTHER -> "links")
  /\ kind \in {"wifi", "mqtt"} => s.ens # << >> /\ s.ens[1].link = kind

\* C11 as stated: the hold duration the handler computes is the time the clock
\* ran, elapsed(5, 4294967295) = 6, and each interval test decides as the true
\* elapsed time d says: the release is long for d >= 5000, short for
\* 50 <= d < 5000, a bounce below; a new attempt is started exactly if
\* d >= 60000; the gate is closed exactly if d >= 600000; the LED blinks exactly
\* if d >= the blink period.
C11_AsStated ==
  /\ Sub32(ULong(5), << 65535, 65535 >>) = ULong(6)
  /\ pc = "checked" =>
       LET d == s.waited[1]
       IN  /\ Checked("press") =>
                /\ s.hold = << d >>
                /\ s.config_enable = Ge32(d, ULong(5000))
                /\ s.power_enable = (Ge32(d, ULong(50)) /\ ~Ge32(d, ULong(5000)))
           /\ Checked("wifi") \/ Checked("mqtt") =>
                (s.ens[1].attempt <=> Ge32(d, ULong(60000)))
           /\ Checked("idle") =>
                (s.idle[1].cleared <=> Ge32(d, ULong(600000)))
           /\ Checked("blink") =>
                ((s.blink_millis = clock) <=> Ge32(d, ULong(250)))

(***************************************************************************)
(* The links of a device that runs forever: the main thread goes through   *)
(* loop() again and again, and millis() advances between two iterations,   *)
(* by less than 2^32.  The clock moves in steps of 2^30 so that it comes   *)
(* back to its values.                                                     *)
(***************************************************************************)
RetryNet == 1

RetryDeltas == { << 16384, 0 >> }

InitRetry == InitWith(Budget(0, 0, 0, 0, RetryNet))

\* time passes between two iterations
TickRetry ==
  /\ Waiting
  /\ s.op # "tick"
  /\ \E d \in RetryDeltas : clock' = Add32(clock, d)
  /\ s' = Begin(s, "tick")
  /\ UNCHANGED << variant, pc, budget >>

\* the statements of loop() with the gate closed and the power unchanged
MainThread ==
  \/ LoopGate
  \/ LoopConsole
  \/ LoopLinks
  \/ LoopCmp

NextRetry ==
  \/ SketchSetup
  \/ TickRetry
  \/ WiFiEvent
  \/ MainThread

\* setup() runs after reset and the main thread never stops; the timer counts
\* whatever the program does, so the clock, which is stepped here only between
\* two iterations, is stepped again and again
SpecRetry ==
  /\ InitRetry
  /\ [][NextRetry]_vars
  /\ WF_vars(SketchSetup)
  /\ WF_vars(MainThread)
  /\ SF_vars(TickRetry)

(***************************************************************************)
(* Retrying.                                                               *)
(***************************************************************************)
\* the last step made an ensure call that started an attempt for link
Attempted(link) ==
  \E i \in 1 .. Len(s.ens) : s.ens[i].link = link /\ s.ens[i].attempt

\* C12: an ensure call for a link that is down and has an endpoint, made when
\* 60000 ms or more have passed since the previous attempt, starts an attempt,
\* also after a failed one; and while the endpoint is configured and the link
\* stays down (for the bus: while WiFi is up), attempts are started again and
\* again without end.
C12_RetriesForever ==
  /\ [](\A i \in 1 .. Len(s.ens) :
          LET a == s.ens[i]
          IN  (a.endpoint /\ ~a.connected
                 /\ Ge32(Sub32(a.now, a.before), ULong(60000)))
                => a.attempt /\ LastTry(a.link) = a.now)
  /\ []<>(\/ s.wifi_status = "CONNECTED"
          \/ Len(s.settings.wifi_ssid) = 0
          \/ Attempted("wifi"))
  /\ []<>(\/ s.wifi_status # "CONNECTED"
          \/ s.mqtt_state = "CONNECTED"
          \/ Len(s.settings.mqtt_server) = 0
          \/ Attempted("mqtt"))

\* an attempt for the bus has failed, and 2^30 ms later another one was started
C12_Witness ==
  \E i \in 1 .. Len(s.ens) :
    /\ s.ens[i].link = "mqtt"
    /\ s.ens[i].tried /\ s.ens[i].attempt
    /\ s.last_state = "CONNECT_FAILED"
    /\ s.ens[i].before # Zero32
    /\ Sub32(s.ens[i].now, s.ens[i].before) = << 16384, 0 >>

(***************************************************************************)
(* The console alone: a client is attached to a device with the gate open  *)
(* and sends lines, one per iteration of loop().                           *)
(***************************************************************************)
CommandCmds == 2

\* arguments longer than the fields they go to (31 and 15 characters)
LongName == "a-device-name-of-forty-characters-in-all"

LongServer == "broker.example.com"

CommandLines ==
  { "help", "on", "off", "status", "frobnicate", "mqtt-status", "wifi-status",
    "device-name", "device-name sw2", "device-name -", "device-name " \o LongName,
    "wifi", "wifi net2 pw2", "wifi net2", "wifi -", "wifi - -",
    "mqtt-server", "mqtt-server 10.0.0.3", "mqtt-server -",
    "mqtt-server " \o LongServer,
    "mqtt-port", "mqtt-port 1884", "mqtt-port 65535", "mqtt-port 0",
    "mqtt-port 65536", "mqtt-port -5", "mqtt-port abc", "mqtt-port -",
    "mqtt-port 0080", "mqtt-port 80abc",
    "mqtt-id", "mqtt-id id1", "mqtt-id -",
    "mqtt-auth", "mqtt-auth u p", "mqtt-auth u", "mqtt-auth -", "mqtt-auth - -",
    "mqtt-control-topic", "mqtt-control-topic sw/x", "mqtt-control-topic -",
    "mqtt-status-topic", "mqtt-status-topic sw/st", "mqtt-status-topic -" }

CommandInputs == {NoInput} \cup [kind : {"line"}, buf : CommandLines]

\* how the links are when the client attaches
LinkSituations == { "up", "bus down", "wifi down" }

\* millis() when the lines arrive, and when the last attempts were started
CommandClock == ULong(10000)

WiFiTriedAt == ULong(1000)

BusTriedAt == ULong(2000)

\* a device in loop() with the gate open and a client attached
Attached(v, links) ==
  LET base == [Boot(v, ConfiguredSettings(v)) EXCEPT
                 !.settings = ConfiguredSettings(v),
                 !.loop_entered = TRUE,
                 !.config_enable = TRUE, !.last_config_enable = TRUE,
                 !.bluetooth_enable_millis = ULong(9000),
                 !.bt_started = TRUE, !.ap_started = (v = "config"),
                 !.bt_has_client = TRUE, !.last_bluetooth_has_client = TRUE,
                 !.wifi_tried = TRUE, !.wifi_last_try = WiFiTriedAt,
                 !.op = "attached"]
      wifi == [base EXCEPT !.wifi_status = "CONNECTED", !.last_status = "CONNECTED",
                           !.mqtt_tried = TRUE, !.mqtt_last_try = BusTriedAt,
                           !.connect_args = << ConnectArgs(v, base.settings) >>]
  IN  CASE links = "up" ->
             [wifi EXCEPT !.mqtt_state = "CONNECTED", !.last_state = "CONNECTED",
                          !.subscribed = base.settings.mqtt_control_topic,
                          !.announced = << 1 >>,
                          !.blink_period = IF v = "bluetooth" THEN BLINK_CONNECTED_BT
                                           ELSE BLINK_CONNECTED_CFG]
        [] links = "bus down" ->
             [wifi EXCEPT !.mqtt_state = "CONNECT_FAILED",
                          !.last_state = "CONNECT_FAILED",
                          !.blink_period = BLINK_NO_MQTT]
        [] OTHER ->
             [base EXCEPT !.wifi_status = "CONNECT_FAILED",
                          !.last_status = "CONNECT_FAILED",
                          !.blink_period = BLINK_NO_WIFI]

InitCommand ==
  /\ variant \in Variants
  /\ clock = CommandClock
  /\ pc = "gate"
  /\ s \in { Attached(variant, links) : links \in LinkSituations }
  /\ budget = Budget(0, 0, CommandCmds, 0, 0)

\* one iteration of loop(), a line of the client waiting or not
LoopCommand == IterateWith(CommandInputs)

NextCommand == LoopCommand

SpecCommand == InitCommand /\ [][NextCommand]_vars

(***************************************************************************)
(* Console commands.                                                       *)
(***************************************************************************)
\* the command name of a line and its first and second argument, << >> for none
CmdOf(line) == tokenSplit(line, 1).token

ArgOf(line) == tokenSplit(line, tokenSplit(line, 1).ptr).token

Arg2Of(line) ==
  tokenSplit(line, tokenSplit(line, tokenSplit(line, 1).ptr).ptr).token

\* the last step was an iteration of loop() that read a line whose command is
\* one of cmds
Ran(cmds) ==
  /\ s.op = "loop"
  /\ s.input = "line"
  /\ CmdOf(s.line) # NullPtr
  /\ CmdOf(s.line)[1] \in cmds

\* the console said so
Said(text) == \E i \in 1 .. Len(s.said) : s.said[i] = text

Saved == Said("Settings saved.") \/ Said("Settings saved!")

Called(what) == \E i \in 1 .. Len(s.calls) : s.calls[i] = what

\* the ensure calls the step made for link
EnsOf(link) == { i \in 1 .. Len(s.ens) : s.ens[i].link = link }

\* the supervisor of link was restarted before the ensure calls of the step:
\* they find the link down and lastAttempt 0, and start an attempt if there
\* is an endpoint; with no ensure call for the link, lastAttempt is 0 still
Restarted(link) ==
  /\ Called(IF link = "wifi" THEN "WiFi.disconnect" ELSE "mqtt.disconnect")
  /\ \A i \in EnsOf(link) :
       /\ ~s.ens[i].connected
       /\ s.ens[i].before = Zero32
       /\ s.ens[i].endpoint => s.ens[i].attempt
  /\ EnsOf(link) = {} => LastTry(link) = Zero32

WiFiCommands == { "device-name", "wifi" }

BusCommands ==
  { "mqtt-server", "mqtt-port", "mqtt-id", "mqtt-auth", "mqtt-control-topic",
    "mqtt-status-topic" }

\* C13 as stated: an iteration of loop() that reads the write form of
\* device-name or wifi restarts the WiFi supervisor, and one that reads the
\* write form of mqtt-server, mqtt-port, mqtt-id, mqtt-auth, mqtt-control-topic
\* or mqtt-status-topic restarts the bus supervisor: the link is disconnected,
\* lastAttempt is 0, and the next ensure call with an endpoint starts an
\* attempt.
C13_AsStated ==
  /\ Ran(WiFiCommands) /\ Saved => Restarted("wifi")
  /\ Ran(BusCommands) /\ Saved => Restarted("mqtt")

\* the settings that can be written and read back
RoundTripCommands ==
  { "device-name", "mqtt-server", "mqtt-port", "mqtt-id", "mqtt-control-topic",
    "mqtt-status-topic" }

\* the step reads a line with the read form of the setting that the line of
\* the step before wrote
WroteThenRead ==
  /\ Ran(RoundTripCommands) /\ ArgOf(s.line) # NullPtr /\ Saved
  /\ s'.op = "loop" /\ s'.input = "line"
  /\ s'.line = CmdOf(s.line)[1]

\* C14 as stated: the read form echoes exactly the value the write form before
\* it was given.
C14_AsStated ==
  [][ WroteThenRead => s'.said = << ArgOf(s.line)[1] >> ]_vars

\* how many characters the setting of a command holds
Capacity(cmd) == IF cmd \in {"mqtt-server", "mqtt-id"} THEN 15 ELSE 31

\* C14: after the write form with value v the read form echoes, for mqtt-port,
\* the decimal numeral of the number v starts with (v itself when v is a
\* numeral from 1 to 65535 without sign and leading zeros), and for the other
\* settings the empty line when v is "-" and else the first 31 characters of v
\* (15 for mqtt-server and mqtt-id), which is v itself when v is not longer.
C14_RoundTrip ==
  [][ WroteThenRead =>
        LET cmd == CmdOf(s.line)[1]
            v   == ArgOf(s.line)[1]
        IN  s'.said = << IF cmd = "mqtt-port" THEN ToString(atoi(v))
                         ELSE IF v = "-" THEN ""
                         ELSE SubSeq(v, 1, Min(Len(v), Capacity(cmd))) >> ]_vars

\* the server address written was read back
C14_Witness ==
  /\ Ran({"mqtt-server"})
  /\ s.line = "mqtt-server"
  /\ s.said = << "10.0.0.3" >>

\* the member of settings a command of the shared helper writes
FieldOf(cmd) ==
  CASE cmd = "device-name" -> "device_name"
    [] cmd = "mqtt-server" -> "mqtt_server"
    [] cmd = "mqtt-id" -> "mqtt_id"
    [] cmd = "mqtt-control-topic" -> "mqtt_control_topic"
    [] cmd = "mqtt-status-topic" -> "mqtt_status_topic"

Dash == << "-" >>

\* C15 as stated: after a line whose value token is "-" the field of that token
\* is empty: the setting of a helper command, the network name or password of
\* wifi, the user or password of mqtt-auth; and mqtt-port takes "-" as a write.
C15_AsStated ==
  /\ Ran(RoundTripCommands \ {"mqtt-port"}) /\ ArgOf(s.line) = Dash
       => s.settings[FieldOf(CmdOf(s.line)[1])] = ""
  /\ Ran({"wifi"}) /\ ArgOf(s.line) = Dash => s.settings.wifi_ssid = ""
  /\ Ran({"wifi"}) /\ Arg2Of(s.line) = Dash => s.settings.wifi_password = ""
  /\ Ran({"mqtt-auth"}) /\ ArgOf(s.line) = Dash => s.settings.mqtt_user = ""
  /\ Ran({"mqtt-auth"}) /\ Arg2Of(s.line) = Dash => s.settings.mqtt_password = ""
  /\ Ran({"mqtt-port"}) /\ ArgOf(s.line) = Dash => Saved

\* the command names PollBluetoothCommand knows
KnownCommands(v) ==
  { "help", "on", "off", "status", "device-name", "mqtt-status", "mqtt-server",
    "mqtt-port", "mqtt-id", "mqtt-auth", "mqtt-control-topic", "mqtt-status-topic",
    "wifi", "wifi-status" } \cup (IF v = "config" THEN {"setup"} ELSE {})

\* a decimal numeral from 1 to 65535
ValidPort(text) ==
  /\ Len(text) \in 1 .. 5
  /\ \A i \in 1 .. Len(text) : SubSeq(text, i, i) \in Digits
  /\ AtoiFrom(text, 1, 0) \in 1 .. 65535

\* an unknown command, mqtt-port with a value that is no port number,
\* mqtt-auth without user, wifi without network name
Malformed(v, line) ==
  LET cmd == CmdOf(line)[1]
      arg == ArgOf(line)
  IN  \/ cmd \notin KnownCommands(v)
      \/ cmd = "mqtt-port" /\ arg # NullPtr /\ ~ValidPort(arg[1])
      \/ cmd \in {"mqtt-auth", "wifi"} /\ arg = NullPtr

\* C16 as stated: an iteration of loop() that reads a malformed line says a
\* line beginning with Error: and leaves the settings, power_enable, the gate,
\* the state of both links and both lastAttempt values as they were.
C16_AsStated ==
  [][ (s'.op = "loop" /\ s'.input = "line" /\ Malformed(variant, s'.line))
        => /\ \E i \in 1 .. Len(s'.said) :
                Len(s'.said[i]) >= 6 /\ SubSeq(s'.said[i], 1, 6) = "Error:"
           /\ s'.settings = s.settings
           /\ s'.eeprom = s.eeprom
           /\ s'.power_enable = s.power_enable
           /\ s'.config_enable = s.config_enable
           /\ s'.wifi_status = s.wifi_status
           /\ s'.mqtt_state = s.mqtt_state
           /\ s'.wifi_last_try = s.wifi_last_try
           /\ s'.mqtt_last_try = s.mqtt_last_try ]_vars

(***************************************************************************)
(* Startup: what setup() finds in the EEPROM.                              *)
(***************************************************************************)
\* a record written by the other sketch, whose header byte is different
ForeignSettings(v) ==
  [ConfiguredSettings(v) EXCEPT
     !.header = SETTINGS_HEADER(IF v = "bluetooth" THEN "config" ELSE "bluetooth")]

\* a record that was never written: all bytes zero
BlankSettings(v) ==
  [DefaultSettings(v) EXCEPT !.header = 0, !.device_name = "", !.mqtt_port = 0]

\* a record saved by this sketch with a name, a client id and credentials
NamedSettings(v) ==
  [ConfiguredSettings(v) EXCEPT !.device_name = "sw2", !.mqtt_id = "id1",
                                !.mqtt_user = "u", !.mqtt_password = "p",
                                !.mqtt_port = 1884]

StartupStored(v) ==
  Stored(v) \cup { ForeignSettings(v), BlankSettings(v), NamedSettings(v) }

InitStartup ==
  /\ variant \in Variants
  /\ clock = Zero32
  /\ pc = "setup"
  /\ s \in { Boot(variant, stored) : stored \in StartupStored(variant) }
  /\ budget = Budget(WholeTicks, 0, 0, 0, MaxNet)

NextStartup ==
  \/ SketchSetup
  \/ Tick
  \/ WiFiEvent
  \/ LoopQuiet

SpecStartup == InitStartup /\ [][NextStartup]_vars

\* C17: when setup() runs, the settings become the stored record if its header
\* byte is the magic value of the sketch (0xD2, 0xD3) and stay the compiled-in
\* defaults if it is not; setup() returns in both cases, loop() is entered
\* next, and nothing in loop() with the gate closed changes the settings.
C17_HeaderDecidesSettings ==
  [][ LET magic == IF variant = "bluetooth" THEN 210 ELSE 211
          valid == s.eeprom.header = magic
          compiled == [header |-> magic, device_name |-> "MQTTSwitch",
                       wifi_ssid |-> "", wifi_password |-> "", mqtt_server |-> "",
                       mqtt_port |-> 1883, mqtt_id |-> "", mqtt_user |-> "",
                       mqtt_password |-> "", mqtt_control_topic |-> "",
                       mqtt_status_topic |-> ""]
      IN  /\ pc = "setup" =>
                /\ pc' = "gate"
                /\ s'.settings = (IF valid THEN s.eeprom ELSE compiled)
                /\ s'.eeprom = s.eeprom
          /\ pc # "setup" =>
                /\ pc' = "gate"
                /\ s'.settings = s.settings ]_vars

\* loop() has run with the default settings, the record of the other sketch
\* being in the EEPROM
C17_Witness ==
  /\ s.op = "loop"
  /\ s.eeprom = ForeignSettings(variant)
  /\ s.settings = DefaultSettings(variant)
  /\ s.ens # << >> /\ ~s.ens[1].endpoint

(***************************************************************************)
(* Does loop() come back?  A client is attached to a device with the gate  *)
(* open.  The main thread and the timer never stop; the client sends what  *)
(* it likes when it likes, or nothing.                                     *)
(***************************************************************************)
DialogueLines == { "on", "setup" }

DialogueInputs == {NoInput} \cup [kind : {"line"}, buf : DialogueLines]

InitDialogue ==
  /\ variant \in Variants
  /\ clock = CommandClock
  /\ pc = "gate"
  /\ s \in { Attached(variant, links) : links \in {"up", "wifi down"} }
  /\ budget = Budget(0, 0, MaxCmds, 0, RetryNet)

LoopDialogue == ConsoleWith(DialogueInputs)

\* the prompts of Setup(), where BluetoothReadLine reads
Prompts == { "setup_ssid", "setup_server", "setup_topics" }

\* the client answers a prompt of Setup() with its lines
SetupAnswer ==
  /\ pc \in Prompts
  /\ s.bt_has_client
  /\ SetupStep

\* Setup() goes on by itself: BluetoothReadLine finds the client gone, or a
\* wait for the network ends
SetupAlone ==
  /\ ~(pc \in Prompts /\ s.bt_has_client)
  /\ SetupStep

\* PollBluetoothCommand() reads a line without a word: tokenSplit returns
\* nullptr and strcmp(cmd, "help") reads through it.  The load from address 0
\* raises an exception, after which the chip is reset or halted as the panic
\* handler is configured; were it to return bytes, they would be compared with
\* the command names.
NullCommand ==
  /\ pc = "console"
  /\ s.config_enable /\ s.bt_has_client
  /\ budget.cmds > 0
  /\ \/ /\ pc' = "setup"
        /\ clock' = Zero32
        /\ s' = Begin(Boot(variant, s.eeprom), "reset")
     \/ /\ pc' = "halted"
        /\ clock' = clock
        /\ s' = Begin(s, "halted")
     \/ /\ pc' = "client"
        /\ clock' = clock
        /\ s' = Say([Begin(s, "console") EXCEPT !.input = "line"],
                    "Error: command not found")
  /\ budget' = Spend("cmds")
  /\ UNCHANGED variant

\* what the main thread does without anybody's help
MainThreadAttached ==
  \/ SketchSetup
  \/ LoopGate
  \/ LoopDialogue
  \/ LoopClient
  \/ LoopLinks
  \/ LoopCmp
  \/ LoopUpd
  \/ LoopRelay
  \/ LoopPublish
  \/ SetupAlone

NextDialogue ==
  \/ MainThreadAttached
  \/ NullCommand
  \/ SetupAnswer
  \/ TickRetry
  \/ BtClient
  \/ WiFiEvent

SpecDialogue ==
  /\ InitDialogue
  /\ [][NextDialogue]_vars
  /\ WF_vars(MainThreadAttached)
  /\ SF_vars(TickRetry)

\* C18 as stated: no step ends an iteration of loop() by a reset or a halt of
\* the sketch, and every iteration comes to its end: the main thread is at the
\* top of loop() again and again.
C18_AsStated ==
  /\ [][pc' \notin {"setup", "halted"}]_vars
  /\ []<>(pc = "gate")

(***************************************************************************)
(* loop() statement by statement on a connected device with the console    *)
(* open, the interrupt handler running between any two statements; the     *)
(* iterations since the last interrupt are counted and the status the       *)
(* broker holds is followed.                                               *)
(***************************************************************************)
InterleaveDeltas == { ULong(50) }

\* connected, the status announced when the connection was made
InitInterleave ==
  /\ variant \in Variants
  /\ clock = CommandClock
  /\ pc = "gate"
  /\ s = [Attached(variant, "up") EXCEPT !.sent = << FALSE >>]
  /\ budget = Budget(ButtonTicks, ButtonEdges, MaxCmds, MaxMsgs, 0)

TickInterleave == TickBy(InterleaveDeltas)

EdgeCounted == EdgeNoting("interrupted")

CmpCounted == CmpNoting("returned")

PublishCounted == PublishNoting("published")

NextInterleave ==
  \/ TickInterleave
  \/ EdgeCounted
  \/ LoopGate
  \/ LoopConsole
  \/ LoopClient
  \/ LoopLinks
  \/ CmpCounted
  \/ LoopUpd
  \/ LoopRelay
  \/ PublishCounted

SpecInterleave == InitInterleave /\ [][NextInterleave]_vars

Reconciled ==
  /\ s.power_pin = s.power_enable
  /\ s.last_power_enable = s.power_enable
  /\ (s.mqtt_state = "CONNECTED" /\ Len(s.settings.mqtt_status_topic) > 0)
       => s.sent = << s.power_enable >>

\* C19: whatever statements of loop() the interrupt handler ran between, when
\* two iterations of loop() have ended since the last interrupt the relay pin
\* and the loop's last_power_enable equal power_enable, and with the bus up
\* and a status topic set the last status the broker was sent equals it too.
C19_AsStated ==
  (pc = "gate" /\ s.spared = << 2 >>) => Reconciled

(***************************************************************************)
(* The end of an iteration of loop() with no interrupt in it.              *)
(***************************************************************************)
\* the step is loop() run from its top to its return
WholeIteration == LoopIteration /\ pc' = "gate"

\* C20: when an iteration of loop() in which no interrupt fired ends, the
\* relay pin and last_power_enable equal power_enable; and when the console
\* or a bus message changed power_enable in it, the iteration has called
\* PublishStatus().
C20_AsStated ==
  [][WholeIteration =>
       /\ s'.power_pin = s'.power_enable
       /\ s'.last_power_enable = s'.power_enable
       /\ s'.power_enable # s.power_enable =>
            \E i \in 1 .. Len(s'.calls) : s'.calls[i] = "PublishStatus"]_vars

(***************************************************************************)
(* The order of the supervisors in loop().                                 *)
(***************************************************************************)
\* the step was an iteration of loop(), or its rest after Setup() returned
Iterated == s.op \in {"loop", "resume"}

\* the ensure calls of the step for link that returned ret
Returning(link, ret) == { i \in EnsOf(link) : s.ens[i].ret = ret }

CallsOf(what) == { i \in 1 .. Len(s.calls) : s.calls[i] = what }

\* EnsureMQTT returned true exactly when it left the client connected (the
\* mqtt.loop() that follows may then find the connection lost)
ReturnsConnected ==
  \A i \in EnsOf("mqtt") :
    /\ s.ens[i].ret => s.mqtt_state \in {"CONNECTED", "CONNECTION_LOST"}
    /\ ~s.ens[i].ret => s.mqtt_state # "CONNECTED"

\* C22: EnsureMQTT returns true exactly when the bus is connected, and the
\* call in which mqtt.connect succeeded calls PublishStatus() before any
\* MQTTCallback of that iteration.
C22_AsStated ==
  Iterated =>
    /\ ReturnsConnected
    /\ \A i \in EnsOf("mqtt") :
         (s.ens[i].attempt /\ s.ens[i].ret) =>
           \E p \in CallsOf("PublishStatus") :
             /\ \E c \in CallsOf("mqtt.connect") : c < p
             /\ \A m \in CallsOf("MQTTCallback") : p < m

(***************************************************************************)
(* The console transport and the gate edge.                                *)
(***************************************************************************)
\* how many times the step that ends called what
CallsMade(what) == Cardinality({ i \in 1 .. Len(s'.calls) : s'.calls[i] = what })

\* the edge parts of C23: loop() calls bt.begin() once when config_enable is
\* true and last_config_enable false, bt.end() once when it is the reverse,
\* and neither when they are equal
OncePerEdge ==
  [][WholeIteration =>
       LET last == EnterLoop(s).last_config_enable
       IN  /\ CallsMade("bt.begin") = IF s.config_enable /\ ~last THEN 1 ELSE 0
           /\ CallsMade("bt.end") = IF ~s.config_enable /\ last THEN 1 ELSE 0]_vars

\* C23: the transport is started once and stopped once per gate edge, and
\* whenever an iteration of loop() has serviced the console (config_enable
\* true) the transport has been started, also when the gate was first
\* toggled before the first iteration.
C23_AsStated ==
  /\ OncePerEdge
  /\ [](Iterated /\ s.config_enable => s.bt_started)

(***************************************************************************)
(* The latch of the interrupt handler.                                     *)
(***************************************************************************)
\* the step is a run of the interrupt handler that read the pin as level
Edge(level) ==
  /\ budget'.edges = budget.edges - 1
  /\ s'.op = IF level = "LOW" THEN "isr_low" ELSE "isr_high"

\* C24: a rising edge with button_press false changes nothing; a falling
\* edge with button_press true keeps button_press_millis; after a rising
\* edge button_press is false.
C24_LatchClassifiesOnce ==
  [][/\ (Edge("HIGH") /\ ~s.button_press) =>
          /\ s'.power_enable = s.power_enable
          /\ s'.config_enable = s.config_enable
          /\ s'.power_pin = s.power_pin
          /\ s'.button_press_millis = s.button_press_millis
          /\ ~s'.button_press
     /\ (Edge("LOW") /\ s.button_press) =>
          /\ s'.button_press_millis = s.button_press_millis
          /\ s'.button_press
          /\ s'.power_enable = s.power_enable
          /\ s'.config_enable = s.config_enable
     /\ Edge("HIGH") => ~s'.button_press]_vars

\* a rising edge was repeated after a release had switched the power on, at a
\* time when a hold counted from the recorded press would have been a short one
C24_Witness ==
  /\ s.op = "isr_high"
  /\ s.hold = << >>
  /\ ~s.button_press
  /\ s.power_enable /\ s.power_pin
  /\ ShortHold(Sub32(clock, s.button_press_millis))

(***************************************************************************)
(* RestartWiFi() and RestartMQTT() alone, and the ensure call after them.  *)
(***************************************************************************)
RestartDeltas == { ULong(1), ULong(59999) }

\* a device in loop(), its links up or down, with or without endpoints
RestartStates(v) ==
  { [Attached(v, links) EXCEPT
       !.power_enable = power, !.last_power_enable = power, !.power_pin = power,
       !.settings = [@ EXCEPT !.wifi_ssid = IF ssid THEN @ ELSE "",
                              !.mqtt_server = IF server THEN @ ELSE ""]] :
      links \in LinkSituations, power \in BOOLEAN, ssid \in BOOLEAN, server \in BOOLEAN }

InitRestart ==
  /\ variant \in Variants
  /\ clock = CommandClock
  /\ pc = "running"
  /\ s \in RestartStates(variant)
  /\ budget = Budget(1, 0, 0, 0, 0)

CallRestartWiFi ==
  /\ pc = "running"
  /\ s' = RestartWiFi(Begin(s, "RestartWiFi"))
  /\ pc' = "wifi restarted"
  /\ UNCHANGED << variant, clock, budget >>

CallRestartMQTT ==
  /\ pc = "running"
  /\ s' = RestartMQTT(Begin(s, "RestartMQTT"))
  /\ pc' = "bus restarted"
  /\ UNCHANGED << variant, clock, budget >>

\* time passes before the next ensure call
Elapse ==
  /\ pc \in {"wifi restarted", "bus restarted"}
  /\ budget.ticks > 0
  /\ \E d \in RestartDeltas : clock' = Add32(clock, d)
  /\ budget' = Spend("ticks")
  /\ UNCHANGED << variant, pc, s >>

CallEnsureWiFi ==
  /\ pc = "wifi restarted"
  /\ s' = EnsureWiFi(Begin(s, "EnsureWiFi"), s.settings, clock).st
  /\ pc' = "ensured"
  /\ UNCHANGED << variant, clock, budget >>

CallEnsureMQTT ==
  /\ pc = "bus restarted"
  /\ \E success \in BOOLEAN :
       s' = EnsureMQTT(variant, Begin(s, "EnsureMQTT"), s.settings, clock, success).st
  /\ pc' = "ensured"
  /\ UNCHANGED << variant, clock, budget >>

NextRestart ==
  \/ CallRestartWiFi
  \/ CallRestartMQTT
  \/ Elapse
  \/ CallEnsureWiFi
  \/ CallEnsureMQTT

SpecRestart == InitRestart /\ [][NextRestart]_vars

\* the step leaves power_enable, config_enable and the settings alone
KeepsPowerGateSettings ==
  /\ s'.power_enable = s.power_enable
  /\ s'.config_enable = s.config_enable
  /\ s'.settings = s.settings

\* C25: RestartWiFi() leaves WiFi disconnected, wifi_last_try 0, the bus
\* disconnected and mqtt_last_try 0; RestartMQTT() leaves the bus disconnected
\* and mqtt_last_try 0 and keeps the WiFi state and wifi_last_try; both keep
\* power_enable, config_enable and the settings; and the next ensure call of
\* the restarted link starts an attempt if the link has an endpoint.
C25_RestartsResetTheirLink ==
  [][/\ pc' = "wifi restarted" /\ pc = "running" =>
          /\ s'.wifi_status # "CONNECTED" /\ s'.wifi_last_try = Zero32
          /\ s'.mqtt_state = "DISCONNECTED" /\ s'.mqtt_last_try = Zero32
          /\ KeepsPowerGateSettings
     /\ pc' = "bus restarted" /\ pc = "running" =>
          /\ s'.mqtt_state = "DISCONNECTED" /\ s'.mqtt_last_try = Zero32
          /\ s'.wifi_status = s.wifi_status /\ s'.wifi_last_try = s.wifi_last_try
          /\ KeepsPowerGateSettings
     /\ pc' = "ensured" =>
          \A i \in 1 .. Len(s'.ens) : s'.ens[i].endpoint => s'.ens[i].attempt]_vars

\* the bus was restarted while connected less than 60000 ms after its last
\* attempt, and the ensure call after it has started a new one
C25_Witness ==
  /\ pc = "ensured"
  /\ s.op = "EnsureMQTT"
  /\ \E i \in EnsOf("mqtt") : s.ens[i].attempt
  /\ ~Ge32(Sub32(clock, BusTriedAt), ULong(RETRY_MILLIS))
  /\ s.wifi_status = "CONNECTED"

(***************************************************************************)
(* The zero sentinel of the retry timestamps.                              *)
(***************************************************************************)
\* an attempt for link was started since boot or the last restart of link
Tried(link) == IF link = "wifi" THEN s.wifi_tried ELSE s.mqtt_tried

\* C26: wifi_last_try is 0 exactly when no WiFi attempt was started since boot
\* or the last restart, and mqtt_last_try likewise, whatever millis() returned
\* when the attempt was started.
C26_AsStated ==
  \A link \in {"wifi", "mqtt"} : (LastTry(link) = Zero32) <=> ~Tried(link)

(***************************************************************************)
(* The idle timeout and an attached console client.                        *)
(***************************************************************************)
AttachedTicks == 2
AttachedEdges == 2
AttachedNet == 1

AttachedDeltas == { ULong(5000), ULong(CONFIG_TIMEOUT_MILLIS) }

\* a device in loop() with the gate active and a console client attached
InitAttached ==
  /\ variant \in Variants
  /\ clock = CommandClock
  /\ pc = "gate"
  /\ s \in { Attached(variant, links) : links \in LinkSituations }
  /\ budget = Budget(AttachedTicks, AttachedEdges, 0, 0, AttachedNet)

TickAttached == TickBy(AttachedDeltas)

NextAttached ==
  \/ TickAttached
  \/ ButtonEdge
  \/ BtClient
  \/ LoopQuiet

SpecAttached == InitAttached /\ [][NextAttached]_vars

\* the value the idle timeout is measured from
IdleSince ==
  IF variant = "bluetooth" THEN s.bluetooth_enable_millis
  ELSE s.bluetooth_disconnected_millis

\* C27: an iteration of loop() that finds a console client attached does not
\* run the idle timeout, and a step that takes config_enable from true to
\* false while a client is attached is a button release after a hold of
\* 5000 ms or more.
C27_ClientHoldsGate ==
  /\ [][WholeIteration /\ s.bt_has_client =>
          /\ CallsMade("timeout") = 0
          /\ s'.config_enable = s.config_enable]_vars
  /\ [][s.bt_has_client /\ s.config_enable /\ ~s'.config_enable =>
          /\ Edge("HIGH")
          /\ s'.hold # << >>
          /\ \A i \in 1 .. Len(s'.hold) : LongHold(s'.hold[i])]_vars

\* an iteration has run with the gate active, a client attached and 600000 ms
\* or more on the idle clock, and the gate is active still
C27_Witness ==
  /\ Iterated
  /\ pc = "gate"
  /\ s.bt_has_client
  /\ s.last_bluetooth_has_client
  /\ s.config_enable
  /\ Ge32(Sub32(clock, IdleSince), ULong(CONFIG_TIMEOUT_MILLIS))

(***************************************************************************)
(* The arguments of the bus connection attempts.                           *)
(***************************************************************************)
ConnectTicks == 2
ConnectNet == 1

ConnectDeltas == { ULong(1), ULong(60000) }

\* bus settings: client id, credentials and topics set or empty
BusSettings(v) ==
  { [ConfiguredSettings(v) EXCEPT !.mqtt_id = id, !.mqtt_user = user,
                                  !.mqtt_password = IF user = "" THEN "" ELSE "secret",
                                  !.mqtt_control_topic = control,
                                  !.mqtt_status_topic = status] :
      id \in {"", "relay-1"}, user \in {"", "user"},
      control \in {"", "sw/set"}, status \in {"", "sw/state"} }

\* a device in loop() with WiFi up and the bus down, an attempt made before
InitConnect ==
  /\ variant \in Variants
  /\ clock = CommandClock
  /\ pc = "bus down"
  /\ s \in { [Attached(variant, "bus down") EXCEPT !.settings = my] :
              my \in BusSettings(variant) }
  /\ budget = Budget(ConnectTicks, 0, 0, 0, ConnectNet)

TickConnect ==
  /\ budget.ticks > 0
  /\ \E d \in ConnectDeltas : clock' = Add32(clock, d)
  /\ budget' = Spend("ticks")
  /\ UNCHANGED << variant, pc, s >>

\* loop() calls EnsureMQTT()
EnsureBus ==
  /\ \E success \in BOOLEAN :
       s' = EnsureMQTT(variant, Begin(s, "EnsureMQTT"), s.settings, clock, success).st
  /\ pc' = IF s'.mqtt_state = "CONNECTED" THEN "bus up" ELSE "bus down"
  /\ UNCHANGED << variant, clock, budget >>

\* mqtt.loop() finds the connection gone
LoseBus ==
  /\ pc = "bus up"
  /\ budget.net > 0
  /\ s' = MqttLoop(Begin(s, "mqtt.loop"), TRUE, NoMsg)
  /\ pc' = "bus down"
  /\ budget' = Spend("net")
  /\ UNCHANGED << variant, clock >>

NextConnect ==
  \/ TickConnect
  \/ EnsureBus
  \/ LoseBus

SpecConnect == InitConnect /\ [][NextConnect]_vars

\* the arguments of the attempt name the client and the will message
WillAndId(topic) ==
  /\ Len(s.connect_args) = 1
  /\ s.connect_args[1].willTopic = topic
  /\ s.connect_args[1].willQos = 1
  /\ s.connect_args[1].willRetain
  /\ s.connect_args[1].willMessage = "OFFLINE"
  /\ s.connect_args[1].id = IF s.settings.mqtt_id # "" THEN s.settings.mqtt_id
                            ELSE s.settings.device_name

\* mqtt.subscribe is called only after an mqtt.connect that succeeded, for the
\* control topic, and only if there is one
SubscribesOnSuccess ==
  /\ Called("mqtt.subscribe") =>
        /\ s.calls = << "mqtt.connect", "mqtt.subscribe" >>
        /\ \A i \in EnsOf("mqtt") : s.ens[i].attempt /\ s.ens[i].ret
        /\ s.mqtt_state = "CONNECTED"
        /\ s.settings.mqtt_control_topic # ""
        /\ s.subscribed = s.settings.mqtt_control_topic
  /\ (\E i \in EnsOf("mqtt") : s.ens[i].attempt /\ ~s.ens[i].ret) =>
        ~Called("mqtt.subscribe") /\ s.subscribed = ""

\* C28 as stated: every attempt passes the status topic as will topic with the
\* will message OFFLINE, retained, QoS 1, and mqtt_id or else device_name as
\* client id; mqtt.subscribe follows only a successful attempt and only with
\* a control topic.
C28_AsStated ==
  s.op = "EnsureMQTT" =>
    /\ Called("mqtt.connect") => WillAndId(Ptr(s.settings.mqtt_status_topic))
    /\ SubscribesOnSuccess

\* C28: as stated when a status topic is configured; with an empty status
\* topic the config sketch passes no will topic and the bluetooth sketch
\* passes the empty topic.
C28_WillOnConfiguredStatusTopic ==
  s.op = "EnsureMQTT" =>
    /\ Called("mqtt.connect") =>
          WillAndId(IF s.settings.mqtt_status_topic = "" /\ variant = "config"
                    THEN NullPtr ELSE Ptr(s.settings.mqtt_status_topic))
    /\ SubscribesOnSuccess

\* an attempt with an explicit client id and both topics has succeeded and
\* subscribed
C28_Witness ==
  /\ s.op = "EnsureMQTT"
  /\ Attempted("mqtt")
  /\ Called("mqtt.subscribe")
  /\ s.settings.mqtt_id # ""
  /\ s.settings.mqtt_status_topic # ""
  /\ s.connect_args[1].id = s.settings.mqtt_id

(***************************************************************************)
(* The status is published on edges only.                                  *)
(***************************************************************************)
\* the ensure call e found its link as it was at the call before, down, with
\* an endpoint and the retry interval not over
GateClosed(e) ==
  /\ ~e.changed
  /\ ~e.connected
  /\ e.endpoint
  /\ ~RetryDue(e.before, e.now)

\* the ensure call e of the bus found the state changed into MQTT_CONNECTED
BecameConnected(e) == e.link = "mqtt" /\ e.changed /\ e.connected

\* C29: an iteration of loop() whose comparison finds power_enable equal to
\* last_power_enable and whose EnsureMQTT does not find the state changed
\* into MQTT_CONNECTED calls no PublishStatus; an ensure call that finds no
\* state change and the retry interval not over starts no attempt and leaves
\* last_try, and publishes nothing.
C29_PublishOnlyOnEdges ==
  [][WholeIteration =>
       LET last == EnterLoop(s).last_power_enable
           ens == s'.ens
       IN  /\ (/\ s'.power_enable = last
                /\ \A i \in 1 .. Len(ens) : ~BecameConnected(ens[i])) =>
                  CallsMade("PublishStatus") = 0 /\ s'.pubs = << >>
           /\ \A i \in 1 .. Len(ens) :
                GateClosed(ens[i]) =>
                  /\ ~ens[i].attempt
                  /\ ens[i].link = "wifi" =>
                        /\ s'.wifi_last_try = ens[i].before
                        /\ CallsMade("WiFi.begin") = 0
                  /\ ens[i].link = "mqtt" =>
                        /\ s'.mqtt_last_try = ens[i].before
                        /\ CallsMade("mqtt.connect") = 0
                        /\ s'.power_enable = last => CallsMade("PublishStatus") = 0]_vars

\* an iteration has run with the bus down, tried before and its retry interval
\* not over, and has published nothing
C29_Witness ==
  /\ s.op = "loop"
  /\ pc = "gate"
  /\ s.mqtt_tried
  /\ \E i \in EnsOf("mqtt") : GateClosed(s.ens[i])
  /\ ~Called("PublishStatus")
  /\ Len(s.settings.mqtt_status_topic) > 0

(***************************************************************************)
(* The idle timeout of a gate no client ever attached to.                  *)
(***************************************************************************)
IdleTicks == 2

\* millis() at the release that sets config_enable
Uptimes == { ULong(5000), ULong(CONFIG_TIMEOUT_MILLIS), ULong(700000), FromTop(1) }

IdleDeltas == { ULong(1), ULong(599999), ULong(CONFIG_TIMEOUT_MILLIS) }

\* a device in loop() whose button was released at millis() = uptime after a
\* hold of 5000 ms
Held(v, uptime) ==
  ButtonChangeISR(Begin(ButtonChangeISR(Running(v), TRUE, Sub32(uptime, ULong(HOLD_MILLIS))),
                        "isr_high"),
                  FALSE, uptime)

InitIdle ==
  /\ variant \in Variants
  /\ clock \in Uptimes
  /\ pc = "gate"
  /\ s = Held(variant, clock)
  /\ budget = Budget(IdleTicks, 0, 0, 0, 0)

\* the clock runs for d after loop() has started the console
TickIdle ==
  /\ s.bt_started
  /\ budget.ticks > 0
  /\ \E d \in IdleDeltas :
       /\ clock' = Add32(clock, d)
       /\ s' = [s EXCEPT !.waited = IF @ = << >> THEN << d >> ELSE << Add32(@[1], d) >>]
  /\ budget' = Spend("ticks")
  /\ UNCHANGED << variant, pc >>

NextIdle ==
  \/ TickIdle
  \/ LoopQuiet

SpecIdle == InitIdle /\ [][NextIdle]_vars

\* C30: after a hold of 5000 ms has set config_enable and no client has ever
\* attached, an iteration of loop() leaves config_enable false only when
\* 600000 ms or more have passed since the iteration that started the
\* console, whatever millis() was then.
C30_AsStated ==
  (Iterated /\ ~s.config_enable) =>
    (s.waited # << >> /\ Ge32(s.waited[1], ULong(CONFIG_TIMEOUT_MILLIS)))

(***************************************************************************)
(* The subscription and the configured control topic.                      *)
(***************************************************************************)
\* C31: when loop() has returned with the bus connected and a control topic
\* configured, the subscription of the client is to settings.mqtt_control_topic,
\* whichever of the console, Setup() and the web form wrote the topic.
C31_AsStated ==
  (/\ pc = "gate"
   /\ Iterated
   /\ s.mqtt_state = "CONNECTED"
   /\ Len(s.settings.mqtt_control_topic) > 0) =>
     s.subscribed = s.settings.mqtt_control_topic

(***************************************************************************)
(* Console input that waits while the gate is closed.                      *)
(***************************************************************************)
GateTicks == 1
GateEdges == 2
GateCmds == 2

GateDeltas == { ULong(HOLD_MILLIS) }

\* lines and forms that wait at the device
GateInputs ==
  {NoInput}
    \cup [kind : {"line"},
          buf : {"on", "off", "wifi net2 pw2", "mqtt-server 10.0.0.3",
                 "mqtt-control-topic sw/x", "mqtt-auth u p"}]
    \cup [kind : {"form"}, form : Forms]

\* what can wait when loop() is called: a line of an attached client of the
\* started transport, a form posted to the started web server
Pending(v, st, input) ==
  \/ input.kind = "none"
  \/ /\ input.kind = "form"
     /\ budget.cmds > 0
     /\ v = "config" /\ st.ap_started
  \/ /\ input.kind = "line"
     /\ budget.cmds > 0
     /\ st.bt_started /\ st.bt_has_client

InitGate ==
  /\ variant \in Variants
  /\ clock = CommandClock
  /\ pc = "gate"
  /\ s \in { Attached(variant, links) : links \in LinkSituations }
  /\ budget = Budget(GateTicks, GateEdges, GateCmds, 0, 0)

TickGate == TickBy(GateDeltas)

\* one iteration of loop(), input waiting or not, the gate open or closed
LoopPending ==
  /\ pc = "gate"
  /\ \E input \in GateInputs :
       /\ Pending(variant, s, input)
       /\ LET g == GateEdge(variant, EnterLoop(Begin(s, "loop")), clock)
              c == ConsoleBlock(variant, Given(g, input), input)
          IN  Finish(c.st, c.pc)
  /\ pc' = "gate"
  /\ UNCHANGED << variant, clock >>

NextGate ==
  \/ TickGate
  \/ ButtonEdge
  \/ LoopPending

SpecGate == InitGate /\ [][NextGate]_vars

\* the state loop() leaves when nothing waits at the console
Unread(st, now, success) ==
  LET g == GateEdge(variant, EnterLoop(Begin(st, "loop")), now)
      c == ConsoleBlock(variant, Given(g, NoInput), NoInput)
  IN  Rest(variant, c.st, now, c.pc, success, Quiet)

\* C32: an iteration of loop() that finds config_enable false reads no console
\* input: whatever line or form waits, it leaves power_enable, settings, the
\* links, wifi_last_try and mqtt_last_try and all other state as the same
\* iteration leaves them with nothing waiting.
C32_ConsoleOnlyWithGate ==
  [][LoopPending /\ ~s.config_enable =>
       \E success \in BOOLEAN :
         [s' EXCEPT !.input = "none", !.line = ""] = Unread(s, clock, success)]_vars

\* an iteration has run with the gate closed by a long hold, the transport
\* started, a client attached and a line waiting, and has answered nothing
C32_Witness ==
  /\ s.op = "loop"
  /\ s.input = "line"
  /\ ~s.config_enable
  /\ Called("bt.end")
  /\ s.said = << >>

====
